---------------------------- MODULE Spec2Model ----------------------------
(***************************************************************************)
(* Model of the soma chat relay (api/chat.js): one request travelling      *)
(* through `handler`, the provider selector, the credential check, the     *)
(* upstream dispatch and the three stream normalizers.                     *)
(*                                                                         *)
(* Text is modelled as a sequence of tokens (a token is one character or   *)
(* a fixed run of characters such as the "data: " prefix); a chunk of an   *)
(* upstream body is a sequence of tokens, so line splitting, prefix        *)
(* filtering, JSON decoding and bracket matching are computed on the       *)
(* chunk's content as the code computes them.                              *)
(***************************************************************************)
EXTENDS Integers, Sequences, FiniteSets, TLC

VARIABLES
    env,        \* process.env: the set of environment keys holding a truthy value
    pc,         \* position of the handler / of the normalizer's start() callback
    req,        \* the inbound request: method and body
    steps,      \* history: the handler steps executed so far, in order
    provider,   \* const provider = selectProvider(requestedProvider)
    resp,       \* the Response the handler returned (NoResp until it returns)
    calls,      \* history: upstream calls issued, as the payloads sent
    upstream,   \* the upstream's answer to the call: status class and failure
    upLog,      \* history: items the normalizer has read from the upstream
    out,        \* frames enqueued on the outbound ReadableStream, in order
    ctrl,       \* the outbound stream controller: none / open / closed / errored
    buffer,     \* gemini normalizer: let buffer = ''
    thrown,     \* the error caught by the normalizer's catch, if any
    peer        \* a second request handled concurrently: its own locals

vars == << env, pc, req, steps, provider, resp, calls, upstream, upLog, out,
           ctrl, buffer, thrown, peer >>

----------------------------------------------------------------------------
(* Bounds *)

\* upstream items (events or chunks) one request reads before the upstream ends
MaxReads == 3

----------------------------------------------------------------------------
(* Values *)

\* JavaScript undefined; as a property key it is coerced to the string "undefined"
Undefined == "undefined"

\* the keys of PROVIDERS
Providers == {"claude", "openai", "gemini", "grok"}

\* names of the environment variables the relay reads; "undefined" is the key
\* process.env[keyMap[provider]] reads when keyMap has no entry for provider
EnvKeys == {"ANTHROPIC_API_KEY", "OPENAI_API_KEY", "GOOGLE_API_KEY",
            "XAI_API_KEY", "undefined"}

NoResp == [status |-> 0, contentType |-> "none", error |-> << >>]

JsonResponse(status, error) ==
    [status |-> status, contentType |-> "application/json", error |-> error]

StreamResponse ==
    [status |-> 200, contentType |-> "text/event-stream", error |-> << >>]

NoUpstream == [ok |-> TRUE, state |-> "none"]

\* no second request is in flight
NoPeer ==
    [pc |-> "none", provider |-> Undefined, upLog |-> << >>, out |-> << >>,
     ctrl |-> "none", buffer |-> << >>]

----------------------------------------------------------------------------
(* Provider selector *)

\* a variant that prefers Gemini to OpenAI
selectProviderSwapped(requestedProvider, e) ==
    IF requestedProvider = "auto"
    THEN IF "ANTHROPIC_API_KEY" \in e THEN "claude"
         ELSE IF "GOOGLE_API_KEY" \in e THEN "gemini"
         ELSE IF "OPENAI_API_KEY" \in e THEN "openai"
         ELSE IF "XAI_API_KEY" \in e THEN "grok"
         ELSE "claude"
    ELSE requestedProvider

selectProvider(requestedProvider, e) ==
    IF requestedProvider = "auto"
    THEN IF "ANTHROPIC_API_KEY" \in e THEN "claude"
         ELSE IF "OPENAI_API_KEY" \in e THEN "openai"
         ELSE IF "GOOGLE_API_KEY" \in e THEN "gemini"
         ELSE IF "XAI_API_KEY" \in e THEN "grok"
         ELSE "claude"
    ELSE requestedProvider

\* const keyMap = {...}; keyMap[provider] is undefined for any other provider
keyMap(p) ==
    CASE p = "claude" -> "ANTHROPIC_API_KEY"
      [] p = "openai" -> "OPENAI_API_KEY"
      [] p = "gemini" -> "GOOGLE_API_KEY"
      [] p = "grok"   -> "XAI_API_KEY"
      [] OTHER        -> Undefined


----------------------------------------------------------------------------
(* Inbound requests *)

Methods == {"POST", "GET", "OPTIONS"}

\* messages is absent from the body, or a list of {role, content}
NoMessages == [defined |-> FALSE, list |-> << >>]

SomeMessages(l) == [defined |-> TRUE, list |-> l]

MessageLists == { << >>, << [role |-> "user", content |-> "hi"] >> }

\* a body req.json() cannot decode, a body that decodes to null, and objects
InvalidBody ==
    [json |-> "invalid", messages |-> NoMessages, system |-> Undefined,
     provider |-> Undefined, model |-> Undefined]

NullBody ==
    [json |-> "null", messages |-> NoMessages, system |-> Undefined,
     provider |-> Undefined, model |-> Undefined]

ObjectBodies ==
    [json : {"object"},
     messages : {NoMessages} \cup {SomeMessages(l) : l \in MessageLists},
     system : {Undefined, "You are Soma."},
     provider : {Undefined, "auto", "bogus"} \cup Providers,
     model : {Undefined}]

Bodies == {InvalidBody, NullBody} \cup ObjectBodies

\* provider: requestedProvider = 'auto'  (the default applies to undefined only)
RequestedProvider(body) ==
    IF body.provider = Undefined THEN "auto" ELSE body.provider

----------------------------------------------------------------------------
(* Canonical stream events, as the objects handed to JSON.stringify *)

TextFrame(content, p) == [type |-> "text", content |-> content, provider |-> p]

UsageFrame(u) == [type |-> "usage", usage |-> u]

ErrorFrame(msg) == [type |-> "error", error |-> msg]

DONE == [type |-> "[DONE]"]


----------------------------------------------------------------------------
(* Text as token sequences *)

NL == "\n"

DataPrefix == "data: "

DoneMarker == "[DONE]"

\* the characters upstream text is made of
TextChars == {"H", "e", "l", "o"}

\* {"choices":[{"delta":{"content":"  ...  "}}]}   (an OpenAI chat-completion chunk)
DeltaOpen == "{\"choices\":[{\"delta\":{\"content\":\""

DeltaClose == "\"}}]}"

\* a well-formed chunk object that carries no content (role or finish chunk)
DeltaNoContent == "{\"choices\":[{\"delta\":{}}]}"

\* the body of a non-OK upstream answer
ErrorBody == "{\"error\":{\"message\":\"denied\"}}"

\* index of the first occurrence of tok in s, 0 when there is none
IndexOf(s, tok) ==
    IF \E i \in 1..Len(s) : s[i] = tok
    THEN CHOOSE i \in 1..Len(s) : s[i] = tok /\ \A j \in 1..(i - 1) : s[j] # tok
    ELSE 0

\* index of the last occurrence of tok in s, 0 when there is none
LastIndexOf(s, tok) ==
    IF \E i \in 1..Len(s) : s[i] = tok
    THEN CHOOSE i \in 1..Len(s) : s[i] = tok /\ \A j \in (i + 1)..Len(s) : s[j] # tok
    ELSE 0

\* String.prototype.split with a one-token separator: always at least one piece
RECURSIVE Split(_, _)
Split(s, sep) ==
    LET i == IndexOf(s, sep)
    IN  IF i = 0 THEN << s >>
        ELSE << SubSeq(s, 1, i - 1) >> \o Split(SubSeq(s, i + 1, Len(s)), sep)

\* line.startsWith('data: ')
StartsWithData(line) == Len(line) >= 1 /\ line[1] = DataPrefix

IsText(s) == \A i \in 1..Len(s) : s[i] \in TextChars

\* a lenient variant that accepts a content string cut before its closing quote
ParseDeltaLenient(data) ==
    IF data = << DeltaNoContent >> \/ data = << ErrorBody >>
    THEN [threw |-> FALSE, has |-> FALSE, content |-> << >>]
    ELSE IF Len(data) >= 2 /\ data[1] = DeltaOpen /\ data[Len(data)] = DeltaClose
            /\ IsText(SubSeq(data, 2, Len(data) - 1))
    THEN [threw |-> FALSE, has |-> TRUE, content |-> SubSeq(data, 2, Len(data) - 1)]
    ELSE IF Len(data) >= 1 /\ data[1] = DeltaOpen /\ IsText(Tail(data))
    THEN [threw |-> FALSE, has |-> TRUE, content |-> Tail(data)]
    ELSE [threw |-> TRUE, has |-> FALSE, content |-> << >>]

\* JSON.parse of an OpenAI line followed by parsed.choices?.[0]?.delta?.content:
\* threw is TRUE when JSON.parse throws; content is meaningful when has is TRUE
ParseDelta(data) ==
    IF data = << DeltaNoContent >> \/ data = << ErrorBody >>
    THEN [threw |-> FALSE, has |-> FALSE, content |-> << >>]
    ELSE IF /\ Len(data) >= 2
            /\ data[1] = DeltaOpen
            /\ data[Len(data)] = DeltaClose
            /\ IsText(SubSeq(data, 2, Len(data) - 1))
    THEN [threw |-> FALSE, has |-> TRUE, content |-> SubSeq(data, 2, Len(data) - 1)]
    ELSE [threw |-> TRUE, has |-> FALSE, content |-> << >>]

\* a variant that tags every event of the shared path with the OpenAI provider id
SSELineFramesTaggedOpenAI(line, p) ==
    LET data == Tail(line)
        parsed == ParseDelta(data)
    IN  IF data = << DoneMarker >> THEN << >>
        ELSE IF parsed.threw THEN << >>
        ELSE IF parsed.has /\ parsed.content # << >>
        THEN << TextFrame(parsed.content, "openai") >>
        ELSE << >>

\* the frames one `data: ` line adds (lines 317-328)
SSELineFrames(line, p) ==
    LET data == Tail(line)
        parsed == ParseDelta(data)
    IN  IF data = << DoneMarker >> THEN << >>
        ELSE IF parsed.threw THEN << >>
        ELSE IF parsed.has /\ parsed.content # << >>
        THEN << TextFrame(parsed.content, p) >>
        ELSE << >>

\* a variant whose try block encloses the loop: the first line that fails to
\* parse ends the work on its chunk
RECURSIVE SSELinesFramesStopAtError(_, _)
SSELinesFramesStopAtError(lines, p) ==
    IF lines = << >> THEN << >>
    ELSE IF ~StartsWithData(Head(lines)) THEN SSELinesFramesStopAtError(Tail(lines), p)
    ELSE IF Tail(Head(lines)) # << DoneMarker >> /\ ParseDelta(Tail(Head(lines))).threw
    THEN << >>
    ELSE SSELineFrames(Head(lines), p) \o SSELinesFramesStopAtError(Tail(lines), p)

RECURSIVE SSELinesFrames(_, _)
SSELinesFrames(lines, p) ==
    IF lines = << >> THEN << >>
    ELSE (IF StartsWithData(Head(lines)) THEN SSELineFrames(Head(lines), p) ELSE << >>)
         \o SSELinesFrames(Tail(lines), p)

\* the frames one decoded chunk adds (lines 313-329)
SSEChunkFrames(chunk, p) == SSELinesFrames(Split(chunk, NL), p)


----------------------------------------------------------------------------
(* Gemini: concatenated-JSON-array stream *)

LBracket == "["

RBracket == "]"

Comma == ","

\* {"candidates":[{"content":{"parts":[{"text":" ... "}]}}]}, cut at its brackets
CandOpen == "{\"candidates\":"

ContentOpen == "{\"content\":{\"parts\":"

TextOpen == "{\"text\":\""

TextClose == "\"}"

ContentClose == "}}"

CandClose == "}"

\* a response fragment that carries no candidates
MetaItem == "{\"usageMetadata\":{}}"

Fragment(t) ==
    << CandOpen, LBracket, ContentOpen, LBracket, TextOpen >> \o t
    \o << TextClose, RBracket, ContentClose, RBracket, CandClose >>

\* the tokens of s that are not insignificant whitespace
RECURSIVE StripNL(_)
StripNL(s) ==
    IF s = << >> THEN << >>
    ELSE (IF Head(s) = NL THEN << >> ELSE << Head(s) >>) \o StripNL(Tail(s))

\* JSON.parse of one array element and item.candidates?.[0]?.content?.parts?.[0]?.text
ParseItem(item) ==
    IF item = << MetaItem >> \/ item = << ErrorBody >>
    THEN [threw |-> FALSE, has |-> FALSE, text |-> << >>]
    ELSE IF /\ Len(item) >= 10
            /\ SubSeq(item, 1, 5) = << CandOpen, LBracket, ContentOpen, LBracket, TextOpen >>
            /\ SubSeq(item, Len(item) - 4, Len(item))
                 = << TextClose, RBracket, ContentClose, RBracket, CandClose >>
            /\ IsText(SubSeq(item, 6, Len(item) - 5))
    THEN [threw |-> FALSE, has |-> TRUE, text |-> SubSeq(item, 6, Len(item) - 5)]
    ELSE [threw |-> TRUE, has |-> FALSE, text |-> << >>]

\* splits at the commas outside every bracket
RECURSIVE SplitTop(_, _, _)
SplitTop(s, depth, cur) ==
    IF s = << >> THEN << cur >>
    ELSE LET t == Head(s)
         IN  IF t = Comma /\ depth = 0
             THEN << cur >> \o SplitTop(Tail(s), 0, << >>)
             ELSE SplitTop(Tail(s),
                           IF t = LBracket THEN depth + 1
                           ELSE IF t = RBracket THEN depth - 1 ELSE depth,
                           Append(cur, t))

\* JSON.parse(jsonMatch[0]) for a text that starts with "[" and ends with "]"
ParseArray(m) ==
    LET inner == StripNL(SubSeq(m, 2, Len(m) - 1))
        pieces == SplitTop(inner, 0, << >>)
        parsed == [k \in 1..Len(pieces) |-> ParseItem(pieces[k])]
    IN  IF inner = << >> THEN [threw |-> FALSE, items |-> << >>]
        ELSE IF \E k \in 1..Len(pieces) : parsed[k].threw
        THEN [threw |-> TRUE, items |-> << >>]
        ELSE [threw |-> FALSE, items |-> parsed]

\* a variant that forwards the texts of one array as a single event
RECURSIVE JoinedText(_)
JoinedText(items) ==
    IF items = << >> THEN << >>
    ELSE (IF Head(items).has THEN Head(items).text ELSE << >>) \o JoinedText(Tail(items))

GeminiItemFramesMerged(items) ==
    IF JoinedText(items) = << >> THEN << >>
    ELSE << TextFrame(JoinedText(items), "gemini") >>

\* a variant that walks the parsed array from its last element to its first
RECURSIVE GeminiItemFramesReversed(_)
GeminiItemFramesReversed(items) ==
    IF items = << >> THEN << >>
    ELSE GeminiItemFramesReversed(Tail(items))
         \o (IF Head(items).has /\ Head(items).text # << >>
             THEN << TextFrame(Head(items).text, "gemini") >>
             ELSE << >>)

\* for (const item of parsed) { if (text) enqueue(...) }   (lines 372-377)
RECURSIVE GeminiItemFrames(_)
GeminiItemFrames(items) ==
    IF items = << >> THEN << >>
    ELSE (IF Head(items).has /\ Head(items).text # << >>
          THEN << TextFrame(Head(items).text, "gemini") >>
          ELSE << >>)
         \o GeminiItemFrames(Tail(items))

\* buffer.match(/\[[\s\S]*\]/): from the first "[" to the last "]" after it
BracketMatch(buf) ==
    LET i == IndexOf(buf, LBracket)
        j == LastIndexOf(buf, RBracket)
    IN  IF i > 0 /\ j > i
        THEN [found |-> TRUE, index |-> i, last |-> j]
        ELSE [found |-> FALSE, index |-> 0, last |-> 0]

\* a variant that gives up what it has buffered when the parse fails
GeminiChunkDropsBuffer(buf, chunk) ==
    LET b == buf \o chunk
        jsonMatch == BracketMatch(b)
        parsed == ParseArray(SubSeq(b, jsonMatch.index, jsonMatch.last))
    IN  IF ~jsonMatch.found THEN [frames |-> << >>, buffer |-> b]
        ELSE IF parsed.threw THEN [frames |-> << >>, buffer |-> << >>]
        ELSE [frames |-> GeminiItemFrames(parsed.items),
              buffer |-> SubSeq(b, jsonMatch.last + 1, Len(b))]

\* one pass of the read loop's body (lines 364-382): the frames it enqueues and
\* the buffer it leaves
GeminiChunk(buf, chunk) ==
    LET b == buf \o chunk
        jsonMatch == BracketMatch(b)
        parsed == ParseArray(SubSeq(b, jsonMatch.index, jsonMatch.last))
    IN  IF ~jsonMatch.found THEN [frames |-> << >>, buffer |-> b]
        ELSE IF parsed.threw THEN [frames |-> << >>, buffer |-> b]
        ELSE [frames |-> GeminiItemFrames(parsed.items),
              buffer |-> SubSeq(b, jsonMatch.last + 1, Len(b))]


----------------------------------------------------------------------------
(* Provider registry and cost accounting *)

\* PROVIDERS[p].models.default
DefaultModel(p) ==
    CASE p = "claude" -> "claude-sonnet-4-5-20250514"
      [] p = "openai" -> "gpt-4o"
      [] p = "gemini" -> "gemini-1.5-pro"
      [] p = "grok"   -> "grok-beta"

\* model || PROVIDERS[p].models.default
ModelId(model, p) == IF model = Undefined THEN DefaultModel(p) ELSE model

\* JavaScript numbers that occur in the cost calculation: a finite value or NaN.
\* Prices are in cents per million tokens, so tokens x price is a cost in 1e-8 dollar.
Num(v) == [nan |-> FALSE, v |-> v]

NaN == [nan |-> TRUE, v |-> 0]

Mul(a, b) == IF a.nan \/ b.nan THEN NaN ELSE Num(a.v * b.v)

Add(a, b) == IF a.nan \/ b.nan THEN NaN ELSE Num(a.v + b.v)

Sub(a, b) == IF a.nan \/ b.nan THEN NaN ELSE Num(a.v - b.v)

SonnetInput == 300

SonnetOutput == 1500

SonnetCacheWrite == 375

SonnetCacheRead == 30

HaikuInput == 80

HaikuOutput == 400

HaikuCacheWrite == 100

HaikuCacheRead == 8

Gpt4oInput == 250

Gpt4oOutput == 1000

Gpt4oMiniInput == 15

Gpt4oMiniOutput == 60

\* a property the pricing row does not have reads as undefined, NaN in arithmetic
PRICING(modelId) ==
    CASE modelId = "claude-sonnet-4-5-20250514" ->
           [found |-> TRUE, input |-> Num(SonnetInput), output |-> Num(SonnetOutput),
            cache_write |-> Num(SonnetCacheWrite), cache_read |-> Num(SonnetCacheRead)]
      [] modelId = "claude-haiku-3-5-20241022" ->
           [found |-> TRUE, input |-> Num(HaikuInput), output |-> Num(HaikuOutput),
            cache_write |-> Num(HaikuCacheWrite), cache_read |-> Num(HaikuCacheRead)]
      [] modelId = "gpt-4o" ->
           [found |-> TRUE, input |-> Num(Gpt4oInput), output |-> Num(Gpt4oOutput),
            cache_write |-> NaN, cache_read |-> NaN]
      [] modelId = "gpt-4o-mini" ->
           [found |-> TRUE, input |-> Num(Gpt4oMiniInput), output |-> Num(Gpt4oMiniOutput),
            cache_write |-> NaN, cache_read |-> NaN]
      [] OTHER ->
           [found |-> FALSE, input |-> NaN, output |-> NaN,
            cache_write |-> NaN, cache_read |-> NaN]

\* const pricing = PRICING[modelId] || PRICING['claude-sonnet-4-5-20250514']
Pricing(modelId) ==
    IF PRICING(modelId).found THEN PRICING(modelId)
    ELSE PRICING("claude-sonnet-4-5-20250514")

\* a token counter of the final message: absent counters read as undefined
NoCount == [defined |-> FALSE, n |-> 0]

Count(n) == [defined |-> TRUE, n |-> n]

\* usage.x as a number (undefined is NaN in arithmetic)
AsNum(c) == IF c.defined THEN Num(c.n) ELSE NaN

\* (usage.x || 0)
OrZero(c) == IF c.defined THEN Num(c.n) ELSE Num(0)

\* Number.prototype.toFixed(6) of a cost: the value in micro-dollars, or "NaN"
ToFixed6(x) ==
    IF x.nan THEN [nan |-> TRUE, micro |-> 0]
    ELSE [nan |-> FALSE, micro |-> (x.v + 50) \div 100]

\* lines 251-259: the costs before formatting
RawCost(usage, pricing) ==
    LET inputCost == Mul(AsNum(usage.input_tokens), pricing.input)
        outputCost == Mul(AsNum(usage.output_tokens), pricing.output)
        cacheWriteCost == Mul(OrZero(usage.cache_creation_input_tokens), pricing.cache_write)
        cacheReadCost == Mul(OrZero(usage.cache_read_input_tokens), pricing.cache_read)
        totalCost == Add(Add(Add(inputCost, outputCost), cacheWriteCost), cacheReadCost)
        cacheReadTokens == OrZero(usage.cache_read_input_tokens)
        savingsFromCache == Mul(cacheReadTokens, Sub(pricing.input, pricing.cache_read))
    IN  [input |-> inputCost,
         output |-> outputCost,
         cache_write |-> cacheWriteCost,
         cache_read |-> cacheReadCost,
         total |-> totalCost,
         savings |-> savingsFromCache]

\* lines 266-273
Cost(usage, pricing) ==
    LET raw == RawCost(usage, pricing)
    IN  [input |-> ToFixed6(raw.input),
         output |-> ToFixed6(raw.output),
         cache_write |-> ToFixed6(raw.cache_write),
         cache_read |-> ToFixed6(raw.cache_read),
         total |-> ToFixed6(raw.total),
         savings |-> ToFixed6(raw.savings)]

\* the object of the usage frame: {...usage, model: modelId, cost: {...}}
UsageRecord(usage, modelId) ==
    [input_tokens |-> usage.input_tokens,
     output_tokens |-> usage.output_tokens,
     cache_creation_input_tokens |-> usage.cache_creation_input_tokens,
     cache_read_input_tokens |-> usage.cache_read_input_tokens,
     model |-> modelId,
     cost |-> Cost(usage, Pricing(modelId))]

----------------------------------------------------------------------------
(* Claude: typed-delta stream *)

TextDelta(t) ==
    [type |-> "content_block_delta", delta |-> [type |-> "text_delta", text |-> t]]

\* events the normalizer gives no output for
OtherEvents ==
    { [type |-> "message_start", delta |-> [type |-> "none", text |-> << >>]],
      [type |-> "content_block_delta",
       delta |-> [type |-> "input_json_delta", text |-> << >>]] }

\* what the iteration can yield: text deltas (one of them empty) and other events
ClaudeEvents ==
    { TextDelta(<< "H", "e", "l" >>), TextDelta(<< "l", "o" >>), TextDelta(<< >>) }
    \cup OtherEvents

\* a variant that forwards every content-block delta, whatever its delta type
ClaudeEventFramesAnyDelta(chunk) ==
    IF chunk.type = "content_block_delta"
    THEN << TextFrame(chunk.delta.text, "claude") >>
    ELSE << >>

\* lines 240-243: the frames one upstream event adds
ClaudeEventFrames(chunk) ==
    IF chunk.type = "content_block_delta" /\ chunk.delta.type = "text_delta"
    THEN << TextFrame(chunk.delta.text, "claude") >>
    ELSE << >>

\* what stream.finalMessage() resolves to: a message with or without usage
NoUsage ==
    [input_tokens |-> NoCount, output_tokens |-> NoCount,
     cache_creation_input_tokens |-> NoCount, cache_read_input_tokens |-> NoCount]

FinalMessages ==
    { [hasUsage |-> FALSE, usage |-> NoUsage],
      [hasUsage |-> TRUE,
       usage |-> [input_tokens |-> Count(10), output_tokens |-> Count(2),
                  cache_creation_input_tokens |-> NoCount,
                  cache_read_input_tokens |-> NoCount]],
      [hasUsage |-> TRUE,
       usage |-> [input_tokens |-> Count(1000000), output_tokens |-> Count(0),
                  cache_creation_input_tokens |-> Count(0),
                  cache_read_input_tokens |-> Count(2000)]] }

\* lines 246-278: the frames written once iteration has ended
ClaudeFinalFrames(finalMessage, modelId) ==
    (IF finalMessage.hasUsage
     THEN << UsageFrame(UsageRecord(finalMessage.usage, modelId)) >>
     ELSE << >>)
    \o << DONE >>


----------------------------------------------------------------------------
(* Request translators: the payload each handler sends upstream *)

Truthy(str) == str # Undefined /\ str # ""

\* a variant whose cacheable block takes the text of the message after it
ClaudeMessagesNextText(list) ==
    [idx \in 1..Len(list) |->
        IF idx = Len(list) - 1 /\ Len(list) > 1
        THEN [role |-> list[idx].role,
              blocks |-> << [type |-> "text", text |-> list[idx + 1].content,
                             cache_control |-> "ephemeral"] >>]
        ELSE list[idx]]

\* a variant that annotates the last message instead of the one before it
ClaudeMessagesCacheLast(list) ==
    [idx \in 1..Len(list) |->
        IF idx = Len(list) /\ Len(list) > 1
        THEN [role |-> list[idx].role,
              blocks |-> << [type |-> "text", text |-> list[idx].content,
                             cache_control |-> "ephemeral"] >>]
        ELSE list[idx]]

\* lines 81-98: the second-to-last message becomes one cacheable text block
ClaudeMessages(list) ==
    [idx \in 1..Len(list) |->
        IF idx = Len(list) - 1 /\ Len(list) > 1
        THEN [role |-> list[idx].role,
              blocks |-> << [type |-> "text", text |-> list[idx].content,
                             cache_control |-> "ephemeral"] >>]
        ELSE list[idx]]

\* lines 100-115
ClaudeRequest(messages, system, model) ==
    [provider |-> "claude",
     model |-> ModelId(model, "claude"),
     messages |-> SomeMessages(ClaudeMessages(messages.list)),
     system |-> IF Truthy(system)
                THEN << [type |-> "text", text |-> system,
                         cache_control |-> "ephemeral"] >>
                ELSE << >>]

\* lines 124-139 and 178-193: system ? [{role:'system', content: system}, ...messages]
\* : messages
OpenAIRequest(messages, system, model, p) ==
    [provider |-> p,
     model |-> ModelId(model, p),
     messages |-> IF Truthy(system)
                  THEN SomeMessages(<< [role |-> "system", content |-> system] >>
                                    \o messages.list)
                  ELSE messages,
     system |-> << >>]

\* lines 151-167
GeminiRequest(messages, system, model) ==
    [provider |-> "gemini",
     model |-> ModelId(model, "gemini"),
     messages |-> SomeMessages(
        [i \in 1..Len(messages.list) |->
            [role |-> IF messages.list[i].role = "assistant" THEN "model" ELSE "user",
             parts |-> << messages.list[i].content >>]]),
     system |-> IF Truthy(system) THEN << [parts |-> << system >>] >> ELSE << >>]

\* whether building the payload throws a TypeError before anything is sent:
\* messages.map on undefined (claude, gemini), spreading undefined (openai, grok)
TranslatorThrows(p, messages, system) ==
    IF p \in {"claude", "gemini"} THEN ~messages.defined
    ELSE Truthy(system) /\ ~messages.defined

Translate(p, body) ==
    CASE p = "claude" -> ClaudeRequest(body.messages, body.system, body.model)
      [] p = "gemini" -> GeminiRequest(body.messages, body.system, body.model)
      [] OTHER        -> OpenAIRequest(body.messages, body.system, body.model, p)


----------------------------------------------------------------------------
(* What the mocked upstreams can deliver *)

DataLine(t) == << DataPrefix, DeltaOpen >> \o t \o << DeltaClose, NL, NL >>

\* chunks of an OpenAI-compatible body: whole lines, the upstream's own terminator,
\* and a line cut at a chunk boundary
SSEChunks ==
    { DataLine(<< "H", "e" >>),
      << DataPrefix, DoneMarker, NL, NL >>,
      << DataPrefix, DeltaNoContent, NL, NL >>,
      << DataPrefix, DeltaOpen, "l" >>,
      << "o", DeltaClose, NL, NL >> }

\* chunks of a Gemini body: complete arrays and an array cut in two
GeminiChunks ==
    { << LBracket >> \o Fragment(<< "H", "e" >>) \o << RBracket >>,
      << LBracket >> \o Fragment(<< "l" >>) \o << Comma, NL >>,
      Fragment(<< "o" >>) \o << RBracket >>,
      << LBracket, MetaItem, RBracket >> }

\* the body of a non-OK answer, delivered in one chunk
SSEErrorChunks == { << ErrorBody >> }

GeminiErrorChunks == { << LBracket, ErrorBody, RBracket >> }

\* messages of errors the upstream transport raises
TransportErrors == { "fetch failed" }

----------------------------------------------------------------------------
(* The handler *)

Init ==
    /\ env \in SUBSET EnvKeys
    /\ pc = "idle"
    /\ req = [method |-> "none", body |-> InvalidBody]
    /\ steps = << >>
    /\ provider = Undefined
    /\ resp = NoResp
    /\ calls = << >>
    /\ upstream = NoUpstream
    /\ upLog = << >>
    /\ out = << >>
    /\ ctrl = "none"
    /\ buffer = << >>
    /\ thrown = Undefined
    /\ peer = NoPeer

\* a request arrives
Receive ==
    /\ pc = "idle"
    /\ \E m \in Methods, b \in Bodies :
          req' = [method |-> m, body |-> b]
    /\ pc' = "method"
    /\ UNCHANGED << env, steps, provider, resp, calls, upstream, upLog, out, ctrl,
                    buffer, thrown, peer >>

\* a variant that turns away GET requests only
MethodAllowedNotGet(method) == method # "GET"

\* if (req.method !== 'POST')   (line 200)
MethodAllowed(method) == method = "POST"

\* lines 200-205
CheckMethod ==
    /\ pc = "method"
    /\ steps' = Append(steps, "method")
    /\ IF ~MethodAllowed(req.method)
       THEN /\ resp' = JsonResponse(405, << "Method not allowed" >>)
            /\ pc' = "done"
       ELSE /\ resp' = resp
            /\ pc' = "json"
    /\ UNCHANGED << env, req, provider, calls, upstream, upLog, out, ctrl, buffer,
                    thrown, peer >>

\* line 208, and the catch of lines 407-413 when req.json() or the destructuring throws
ParseBody ==
    /\ pc = "json"
    /\ steps' = Append(steps, "json")
    /\ IF req.body.json = "invalid"
       THEN /\ resp' = JsonResponse(500, << "Unexpected token in JSON" >>)
            /\ pc' = "done"
       ELSE IF req.body.json = "null"
       THEN /\ resp' = JsonResponse(500, << "Cannot destructure property of null" >>)
            /\ pc' = "done"
       ELSE /\ resp' = resp
            /\ pc' = "select"
    /\ UNCHANGED << env, req, provider, calls, upstream, upLog, out, ctrl, buffer,
                    thrown, peer >>

\* line 210
ResolveProvider ==
    /\ pc = "select"
    /\ steps' = Append(steps, "select")
    /\ provider' = selectProvider(RequestedProvider(req.body), env)
    /\ pc' = "credential"
    /\ UNCHANGED << env, req, resp, calls, upstream, upLog, out, ctrl, buffer, thrown, peer >>

\* a variant that lets every request through
CredentialPresentAlways(p, e) == TRUE

\* if (!process.env[keyMap[provider]])   (line 220)
CredentialPresent(p, e) == keyMap(p) \in e

\* lines 213-227
CheckCredential ==
    /\ pc = "credential"
    /\ steps' = Append(steps, "credential")
    /\ IF ~CredentialPresent(provider, env)
       THEN /\ resp' = JsonResponse(500, << provider, " API key not configured" >>)
            /\ pc' = "done"
       ELSE /\ resp' = resp
            /\ pc' = "dispatch"
    /\ UNCHANGED << env, req, provider, calls, upstream, upLog, out, ctrl, buffer,
                    thrown, peer >>

\* lines 232-234 with 236-294: handleClaude builds the payload and opens the SDK
\* stream, the outbound stream is created and the 200 response returned
DispatchClaude ==
    /\ pc = "dispatch"
    /\ provider = "claude"
    /\ steps' = Append(steps, "dispatch")
    /\ IF TranslatorThrows(provider, req.body.messages, req.body.system)
       THEN /\ resp' = JsonResponse(500, << "Cannot read properties of undefined" >>)
            /\ pc' = "done"
            /\ UNCHANGED << calls, upstream, ctrl >>
       ELSE /\ calls' = Append(calls, Translate(provider, req.body))
            /\ upstream' = [ok |-> TRUE, state |-> "open"]
            /\ resp' = StreamResponse
            /\ ctrl' = "open"
            /\ pc' = "claude_iter"
    /\ UNCHANGED << env, req, provider, upLog, out, buffer, thrown, peer >>

\* lines 298-301 and 350-351 up to the await of fetch
DispatchFetch ==
    /\ pc = "dispatch"
    /\ provider \in {"openai", "grok", "gemini"}
    /\ steps' = Append(steps, "dispatch")
    /\ IF TranslatorThrows(provider, req.body.messages, req.body.system)
       THEN /\ resp' = JsonResponse(500, << "undefined is not iterable" >>)
            /\ pc' = "done"
            /\ UNCHANGED << calls, upstream >>
       ELSE /\ calls' = Append(calls, Translate(provider, req.body))
            /\ upstream' = [ok |-> TRUE, state |-> "pending"]
            /\ resp' = resp
            /\ pc' = "fetch"
    /\ UNCHANGED << env, req, provider, upLog, out, ctrl, buffer, thrown, peer >>

\* lines 402-405
UnknownProvider ==
    /\ pc = "dispatch"
    /\ provider \notin Providers
    /\ steps' = Append(steps, "dispatch")
    /\ resp' = JsonResponse(400, << "Unknown provider" >>)
    /\ pc' = "done"
    /\ UNCHANGED << env, req, provider, calls, upstream, upLog, out, ctrl, buffer,
                    thrown, peer >>

\* fetch rejects (network failure): the catch of lines 407-413
FetchRejects ==
    /\ pc = "fetch"
    /\ \E msg \in TransportErrors :
          resp' = JsonResponse(500, << msg >>)
    /\ upstream' = [ok |-> FALSE, state |-> "rejected"]
    /\ pc' = "done"
    /\ UNCHANGED << env, req, steps, provider, calls, upLog, out, ctrl, buffer, thrown, peer >>

\* the position start() waits at once the outbound stream exists
ReadLoop(p) == IF p = "gemini" THEN "gemini_read" ELSE "sse_read"

\* fetch resolves, with an OK status or not: response.body is returned unchecked
\* (lines 142, 171, 196), a reader is taken, the outbound stream is created and
\* the 200 response returned (lines 303-346, 352-399)
FetchResolves ==
    /\ pc = "fetch"
    /\ \E ok \in BOOLEAN : upstream' = [ok |-> ok, state |-> "open"]
    /\ resp' = StreamResponse
    /\ ctrl' = "open"
    /\ buffer' = << >>
    /\ pc' = ReadLoop(provider)
    /\ UNCHANGED << env, req, steps, provider, calls, upLog, out, thrown, peer >>


----------------------------------------------------------------------------
(* Claude normalizer: start() of lines 237-285 *)

\* one turn of for await (const chunk of stream): lines 239-244
ClaudeEvent ==
    /\ pc = "claude_iter"
    /\ Len(upLog) < MaxReads
    /\ \E chunk \in ClaudeEvents :
          /\ upLog' = Append(upLog, chunk)
          /\ out' = out \o ClaudeEventFrames(chunk)
    /\ UNCHANGED << env, pc, req, steps, provider, resp, calls, upstream, ctrl,
                    buffer, thrown, peer >>

\* the iteration ends; start() now awaits stream.finalMessage()
ClaudeIterEnd ==
    /\ pc = "claude_iter"
    /\ upstream' = [upstream EXCEPT !.state = "ended"]
    /\ pc' = "claude_final"
    /\ UNCHANGED << env, req, steps, provider, resp, calls, upLog, out, ctrl, buffer,
                    thrown, peer >>

\* lines 246-279
ClaudeFinal ==
    /\ pc = "claude_final"
    /\ \E finalMessage \in FinalMessages :
          /\ upLog' = Append(upLog, finalMessage)
          /\ out' = out \o ClaudeFinalFrames(finalMessage, calls[Len(calls)].model)
    /\ ctrl' = "closed"
    /\ pc' = "done"
    /\ UNCHANGED << env, req, steps, provider, resp, calls, upstream, buffer, thrown, peer >>

\* what the catch of lines 280-284 does with the error it caught
ClaudeCatch(frames, error) ==
    [out |-> Append(frames, ErrorFrame(error)), ctrl |-> "closed"]

\* the iteration or finalMessage() throws: lines 280-284
ClaudeThrows ==
    /\ pc \in {"claude_iter", "claude_final"}
    /\ \E error \in TransportErrors :
          /\ thrown' = error
          /\ out' = ClaudeCatch(out, error).out
          /\ ctrl' = ClaudeCatch(out, error).ctrl
    /\ upstream' = [ok |-> FALSE, state |-> "failed"]
    /\ pc' = "done"
    /\ UNCHANGED << env, req, steps, provider, resp, calls, upLog, buffer, peer >>

----------------------------------------------------------------------------
(* OpenAI / Grok normalizer: start() of lines 307-337 *)

\* a read delivers a chunk: lines 310-329
SSERead ==
    /\ pc = "sse_read"
    /\ Len(upLog) < MaxReads
    /\ \E chunk \in (IF upstream.ok THEN SSEChunks ELSE SSEErrorChunks) :
          /\ upLog' = Append(upLog, chunk)
          /\ out' = out \o SSEChunkFrames(chunk, provider)
    /\ UNCHANGED << env, pc, req, steps, provider, resp, calls, upstream, ctrl,
                    buffer, thrown, peer >>

\* a read reports done: lines 311, 332-333
SSEDone ==
    /\ pc = "sse_read"
    /\ out' = Append(out, DONE)
    /\ ctrl' = "closed"
    /\ upstream' = [upstream EXCEPT !.state = "ended"]
    /\ pc' = "done"
    /\ UNCHANGED << env, req, steps, provider, resp, calls, upLog, buffer, thrown, peer >>

\* what the catch of lines 334-336 and 387-389 does: controller.error(error)
ReadCatch(frames, error) == [out |-> frames, ctrl |-> "errored"]

\* a read rejects: lines 334-336
SSEReadFails ==
    /\ pc = "sse_read"
    /\ \E error \in TransportErrors :
          /\ thrown' = error
          /\ out' = ReadCatch(out, error).out
          /\ ctrl' = ReadCatch(out, error).ctrl
    /\ upstream' = [upstream EXCEPT !.state = "failed"]
    /\ pc' = "done"
    /\ UNCHANGED << env, req, steps, provider, resp, calls, upLog, buffer, peer >>

----------------------------------------------------------------------------
(* Gemini normalizer: start() of lines 356-390 *)

\* a read delivers a chunk: lines 361-382
GeminiRead ==
    /\ pc = "gemini_read"
    /\ Len(upLog) < MaxReads
    /\ \E chunk \in (IF upstream.ok THEN GeminiChunks ELSE GeminiErrorChunks) :
          /\ upLog' = Append(upLog, chunk)
          /\ out' = out \o GeminiChunk(buffer, chunk).frames
          /\ buffer' = GeminiChunk(buffer, chunk).buffer
    /\ UNCHANGED << env, pc, req, steps, provider, resp, calls, upstream, ctrl, thrown, peer >>

\* a read reports done: lines 362, 385-386
GeminiDone ==
    /\ pc = "gemini_read"
    /\ out' = Append(out, DONE)
    /\ ctrl' = "closed"
    /\ upstream' = [upstream EXCEPT !.state = "ended"]
    /\ pc' = "done"
    /\ UNCHANGED << env, req, steps, provider, resp, calls, upLog, buffer, thrown, peer >>

\* a read rejects: lines 387-389
GeminiReadFails ==
    /\ pc = "gemini_read"
    /\ \E error \in TransportErrors :
          /\ thrown' = error
          /\ out' = ReadCatch(out, error).out
          /\ ctrl' = ReadCatch(out, error).ctrl
    /\ upstream' = [upstream EXCEPT !.state = "failed"]
    /\ pc' = "done"
    /\ UNCHANGED << env, req, steps, provider, resp, calls, upLog, buffer, peer >>

----------------------------------------------------------------------------

Next ==
    \/ Receive
    \/ CheckMethod
    \/ ParseBody
    \/ ResolveProvider
    \/ CheckCredential
    \/ DispatchClaude
    \/ DispatchFetch
    \/ UnknownProvider
    \/ FetchRejects
    \/ FetchResolves
    \/ ClaudeEvent
    \/ ClaudeIterEnd
    \/ ClaudeFinal
    \/ ClaudeThrows
    \/ SSERead
    \/ SSEDone
    \/ SSEReadFails
    \/ GeminiRead
    \/ GeminiDone
    \/ GeminiReadFails

Spec == Init /\ [][Next]_vars


----------------------------------------------------------------------------
(* Properties *)

Range(s) == { s[i] : i \in 1..Len(s) }

\* the outbound stream has been closed or errored: nothing more is written
Ended == ctrl \in {"closed", "errored"}

IsDone(frame) == frame.type = "[DONE]"

DoneCount(frames) == Cardinality({ i \in 1..Len(frames) : IsDone(frames[i]) })

EndsWithOneDone(frames) ==
    /\ Len(frames) >= 1
    /\ IsDone(frames[Len(frames)])
    /\ DoneCount(frames) = 1

\* the last two frames are an error event carrying msg and the terminator
EndsWithErrorThenDone(frames, msg) ==
    /\ Len(frames) >= 2
    /\ frames[Len(frames) - 1].type = "error"
    /\ frames[Len(frames) - 1].error = msg
    /\ IsDone(frames[Len(frames)])
    /\ DoneCount(frames) = 1

\* C1: for every provider and every finite upstream stream, including one that
\* fails mid-way, the frames written end with exactly one [DONE] frame and
\* nothing follows it.
C1_EndsWithExactlyOneDone == Ended => EndsWithOneDone(out)

\* C2: Claude normalizer: when the iteration or finalMessage() throws, one error
\* event carrying the failure message is written, then [DONE], then the stream
\* is closed.
C2_ClaudeErrorThenDone ==
    (provider = "claude" /\ thrown # Undefined)
        => (ctrl = "closed" /\ EndsWithErrorThenDone(out, thrown))

\* C3: OpenAI, Grok and Gemini normalizers: when a read of the upstream body
\* fails, an error event and a forced [DONE] are written and the outbound stream
\* is closed normally, not errored.
C3_ReadFailureErrorThenDone ==
    (provider \in {"openai", "grok", "gemini"} /\ thrown # Undefined)
        => (ctrl = "closed" /\ EndsWithErrorThenDone(out, thrown))

IsEvent(item) == "type" \in DOMAIN item

IsTextDelta(item) ==
    /\ IsEvent(item)
    /\ item.type = "content_block_delta"
    /\ item.delta.type = "text_delta"

\* one text frame per text delta of the log, in the log's order
DeltaFrames(log) ==
    LET deltas == SelectSeq(log, IsTextDelta)
    IN  [i \in 1..Len(deltas) |->
            [type |-> "text", content |-> deltas[i].delta.text, provider |-> "claude"]]

\* C4: Claude path, no failure: the frames written are one text event per
\* upstream text delta, in upstream order, and nothing for other events; once
\* the stream is closed they are followed by one usage event exactly when the
\* final message carries usage, and then by [DONE].
C4_ClaudeSuccessSequence ==
    (provider = "claude" /\ ctrl # "none" /\ thrown = Undefined) =>
        LET texts == DeltaFrames(upLog)
            n == Len(texts)
            final == upLog[Len(upLog)]
        IN  IF ctrl = "open" THEN out = texts
            ELSE /\ ~IsEvent(final)
                 /\ SubSeq(out, 1, n) = texts
                 /\ Len(out) = n + (IF final.hasUsage THEN 2 ELSE 1)
                 /\ final.hasUsage =>
                       /\ out[n + 1].type = "usage"
                       /\ out[n + 1].usage.input_tokens = final.usage.input_tokens
                       /\ out[n + 1].usage.output_tokens = final.usage.output_tokens
                 /\ IsDone(out[Len(out)])
                 /\ \A i \in 1..n : out[i].type = "text"

\* C4 witness: two text deltas and another event, then usage, then [DONE]
C4_Witness ==
    /\ provider = "claude"
    /\ ctrl = "closed"
    /\ thrown = Undefined
    /\ Len(upLog) = 4
    /\ \E i \in 1..3 : IsEvent(upLog[i]) /\ ~IsTextDelta(upLog[i])
    /\ Len(out) = 4
    /\ out[1].type = "text" /\ out[1].content = << "H", "e", "l" >>
    /\ out[2].type = "text" /\ out[2].content = << "l", "o" >>
    /\ out[3].type = "usage"
    /\ IsDone(out[4])

\* priority order of the automatic choice
Priority == << "claude", "openai", "gemini", "grok" >>

\* the reference selector: the first provider of Priority whose credential is
\* present, claude when none is, and any explicit token unchanged
ReferenceSelect(requested, e) ==
    LET avail == { i \in 1..Len(Priority) : keyMap(Priority[i]) \in e }
    IN  IF requested # "auto" THEN requested
        ELSE IF avail = {} THEN "claude"
        ELSE Priority[CHOOSE i \in avail : \A j \in avail : i <= j]

\* C5: the provider the handler resolves equals the reference selector's choice
\* for the requested token and the credentials present.
C5_SelectorMatchesReference ==
    "select" \in Range(steps)
        => provider = ReferenceSelect(RequestedProvider(req.body), env)

\* C5 witness: auto with the OpenAI, Gemini and Grok credentials resolves to openai
C5_Witness ==
    /\ "select" \in Range(steps)
    /\ req.body.provider = "auto"
    /\ env = {"OPENAI_API_KEY", "GOOGLE_API_KEY", "XAI_API_KEY"}
    /\ provider = "openai"

\* position of step in the history, 0 when it has not run
StepIndex(step) == IndexOf(steps, step)

\* C6: when the resolved provider's credential is absent the request ends with
\* status 500 and "<provider> API key not configured" and no upstream call; an
\* upstream call implies the credential was present and was checked first.
C6_CredentialGate ==
    /\ ("credential" \in Range(steps) /\ provider \in Providers /\ keyMap(provider) \notin env)
          => /\ pc = "done"
             /\ resp = JsonResponse(500, << provider, " API key not configured" >>)
             /\ calls = << >>
    /\ calls # << >>
          => /\ keyMap(provider) \in env
             /\ StepIndex("credential") > 0
             /\ StepIndex("credential") < StepIndex("dispatch")

\* C6 witness: openai requested without its credential
C6_Witness ==
    /\ pc = "done"
    /\ provider = "openai"
    /\ "OPENAI_API_KEY" \notin env
    /\ resp = JsonResponse(500, << "openai", " API key not configured" >>)
    /\ calls = << >>

\* C7: a POST whose provider token is none of auto, claude, openai, gemini, grok
\* is answered 400 "Unknown provider" whatever credentials are configured, and
\* no upstream call is made.
C7_UnknownProviderIs400 ==
    ( /\ pc = "done"
      /\ req.method = "POST"
      /\ req.body.json = "object"
      /\ RequestedProvider(req.body) \notin (Providers \cup {"auto"}) )
        => /\ resp = JsonResponse(400, << "Unknown provider" >>)
           /\ calls = << >>

\* C8: a request with a method other than POST is answered at once with 405
\* "Method not allowed": no body parse, no selector, no upstream call.
C8_NonPostIs405 ==
    (req.method \in (Methods \ {"POST"}) /\ pc # "method")
        => /\ pc = "done"
           /\ resp = JsonResponse(405, << "Method not allowed" >>)
           /\ steps = << "method" >>
           /\ provider = Undefined
           /\ calls = << >>

\* C8 witness: an OPTIONS request has been answered
C8_Witness ==
    /\ req.method = "OPTIONS"
    /\ pc = "done"
    /\ resp.status = 405

\* C9: a POST whose body does not parse as the expected JSON shape is answered
\* with a 4xx status and no upstream call is made.
C9_BadBodyIs4xx ==
    (pc = "done" /\ req.method = "POST" /\ req.body.json # "object")
        => /\ resp.status \in 400..499
           /\ calls = << >>

\* the upstream call was made and failed before the stream opened: fetch
\* rejected, or the upstream answered with a non-OK status
FailedBeforeStream ==
    /\ provider \in {"openai", "grok", "gemini"}
    /\ \/ upstream.state = "rejected"
       \/ upstream.state \in {"open", "ended", "failed"} /\ ~upstream.ok

\* C10: OpenAI, Grok, Gemini: when the upstream call fails before the stream
\* opens (network failure or non-OK status) the caller gets one JSON error
\* response with a 5xx status, never a 200 event stream.
C10_PreStreamFailureIs5xx ==
    FailedBeforeStream
        => /\ resp.contentType = "application/json"
           /\ resp.status \in 500..599

----------------------------------------------------------------------------
(* Translators on longer conversations *)

\* longest message list of a translated request
MaxMessages == 3

\* every key the relay reads is configured
AllKeys == {"ANTHROPIC_API_KEY", "OPENAI_API_KEY", "GOOGLE_API_KEY", "XAI_API_KEY"}

\* conversation messages: two roles, contents that tell the messages apart
ChatMessages ==
    [role : {"user", "assistant"}, content : {"hi", "tell me more"}]

\* the lists of length 0..n over ChatMessages
ListsUpTo(n) == UNION { [1..k -> ChatMessages] : k \in 0..n }

TranslateBodies ==
    [json : {"object"},
     messages : { SomeMessages(l) : l \in ListsUpTo(MaxMessages) },
     system : {Undefined, "You are Soma."},
     provider : Providers,
     model : {Undefined}]

InitTranslate ==
    /\ env = AllKeys
    /\ pc = "idle"
    /\ req = [method |-> "none", body |-> InvalidBody]
    /\ steps = << >>
    /\ provider = Undefined
    /\ resp = NoResp
    /\ calls = << >>
    /\ upstream = NoUpstream
    /\ upLog = << >>
    /\ out = << >>
    /\ ctrl = "none"
    /\ buffer = << >>
    /\ thrown = Undefined
    /\ peer = NoPeer

\* a POST arrives whose body names a provider and carries a conversation
ReceiveConversation ==
    /\ pc = "idle"
    /\ \E b \in TranslateBodies : req' = [method |-> "POST", body |-> b]
    /\ pc' = "method"
    /\ UNCHANGED << env, steps, provider, resp, calls, upstream, upLog, out, ctrl,
                    buffer, thrown, peer >>

NextTranslate ==
    \/ ReceiveConversation
    \/ CheckMethod
    \/ ParseBody
    \/ ResolveProvider
    \/ CheckCredential
    \/ DispatchClaude
    \/ DispatchFetch

SpecTranslate == InitTranslate /\ [][NextTranslate]_vars

\* the text a forwarded message carries, whatever shape the provider gives it
ContentOf(m) ==
    IF "content" \in DOMAIN m THEN m.content
    ELSE IF "blocks" \in DOMAIN m THEN m.blocks[1].text
    ELSE m.parts[1]

\* 1 when the payload starts with a synthetic system message, else 0
LeadingSystem(payload, system) ==
    IF payload.provider \in {"openai", "grok"} /\ Truthy(system) THEN 1 ELSE 0

\* C11: for each provider, every message list and system prompt, the payload
\* sent upstream carries every input message's content unmodified and in the
\* original order; a system prompt is added only in front of the first message
\* or in a separate field.
C11_ContentsPreservedInOrder ==
    calls # << >> =>
        LET input == req.body.messages.list
            sent == calls[1].messages.list
            lead == LeadingSystem(calls[1], req.body.system)
        IN  /\ calls[1].provider = provider
            /\ Len(sent) = Len(input) + lead
            /\ \A i \in 1..Len(input) : ContentOf(sent[i + lead]) = input[i].content
            /\ lead = 1 => sent[1] = [role |-> "system", content |-> req.body.system]
            /\ provider \in {"claude", "gemini"} /\ Truthy(req.body.system)
                  => Len(calls[1].system) = 1

\* C11 witness: a three-message conversation sent to Claude, whose second
\* message went out as a cacheable block
C11_Witness ==
    /\ calls # << >>
    /\ provider = "claude"
    /\ Len(req.body.messages.list) = 3
    /\ req.body.messages.list[1].content # req.body.messages.list[2].content
    /\ "blocks" \in DOMAIN calls[1].messages.list[2]

----------------------------------------------------------------------------
(* OpenAI-compatible bodies delivered in arbitrary chunks *)

\* a POST for one of the providers ps, carrying a one-message conversation
ReceiveFor(ps) ==
    /\ pc = "idle"
    /\ \E p \in ps :
          req' = [method |-> "POST",
                  body |-> [json |-> "object",
                            messages |-> SomeMessages(<< [role |-> "user", content |-> "hi"] >>),
                            system |-> Undefined,
                            provider |-> p,
                            model |-> Undefined]]
    /\ pc' = "method"
    /\ UNCHANGED << env, steps, provider, resp, calls, upstream, upLog, out, ctrl,
                    buffer, thrown, peer >>

\* the concatenation of the chunks of a log
RECURSIVE Flat(_)
Flat(log) == IF log = << >> THEN << >> ELSE Head(log) \o Flat(Tail(log))

IsPrefix(a, b) == Len(a) <= Len(b) /\ SubSeq(b, 1, Len(a)) = a

DoneLine == << DataPrefix, DoneMarker, NL, NL >>

\* whole upstream bodies, each with the contents of its text-bearing lines
SSEBodies ==
    { [tokens |-> DataLine(<< "H", "e" >>) \o DataLine(<< "l", "o" >>) \o DoneLine,
       texts |-> << << "H", "e" >>, << "l", "o" >> >>],
      [tokens |-> << DataPrefix, DeltaNoContent, NL, NL >>
                  \o DataLine(<< "H", "e", "l", "l", "o" >>),
       texts |-> << << "H", "e", "l", "l", "o" >> >>] }

\* the chunks a read can deliver next: any further piece of one of the bodies
NextPieces(log, bodies) ==
    LET pos == Len(Flat(log))
    IN  UNION { { SubSeq(b.tokens, pos + 1, pos + k) : k \in 1..(Len(b.tokens) - pos) } :
                    b \in { c \in bodies : IsPrefix(Flat(log), c.tokens) } }

\* a read delivers the next piece of the body, cut anywhere: lines 310-329
SSEReadPiece ==
    /\ pc = "sse_read"
    /\ upstream.ok
    /\ Len(upLog) < MaxReads
    /\ \E chunk \in NextPieces(upLog, SSEBodies) :
          /\ upLog' = Append(upLog, chunk)
          /\ out' = out \o SSEChunkFrames(chunk, provider)
    /\ UNCHANGED << env, pc, req, steps, provider, resp, calls, upstream, ctrl,
                    buffer, thrown, peer >>

ReceiveSSE == ReceiveFor({"openai", "grok"})

NextSSE ==
    \/ ReceiveSSE
    \/ CheckMethod
    \/ ParseBody
    \/ ResolveProvider
    \/ CheckCredential
    \/ DispatchFetch
    \/ FetchResolves
    \/ SSEReadPiece
    \/ SSEDone

SpecSSE == InitTranslate /\ [][NextSSE]_vars

\* the contents of the text frames of a frame sequence, in order
TextsOf(frames) ==
    LET t == SelectSeq(frames, LAMBDA f : f.type = "text")
    IN  [i \in 1..Len(t) |-> t[i].content]

\* a can be obtained from b by deleting elements
RECURSIVE IsSubsequence(_, _)
IsSubsequence(a, b) ==
    IF a = << >> THEN TRUE
    ELSE IF b = << >> THEN FALSE
    ELSE IF Head(a) = Head(b) THEN IsSubsequence(Tail(a), Tail(b))
    ELSE IsSubsequence(a, Tail(b))

\* C12: SSE passthrough: however the body's lines are cut into chunks, the
\* normalizer does not fail and every text event carries the complete content
\* of one upstream line; each line is emitted at most once, in full, or dropped.
C12_SplitLinesNeverGarbled ==
    (provider \in {"openai", "grok"} /\ ctrl # "none" /\ upstream.ok) =>
        /\ thrown = Undefined
        /\ ctrl # "errored"
        /\ \A b \in SSEBodies :
              IsPrefix(Flat(upLog), b.tokens) => IsSubsequence(TextsOf(out), b.texts)

\* C12 witness: the first line arrived cut inside its text and was dropped, the
\* second line arrived whole and was forwarded
C12_Witness ==
    /\ provider = "grok"
    /\ Len(upLog) = 3
    /\ upLog[1] = << DataPrefix, DeltaOpen, "H" >>
    /\ upLog[2] = << "e", DeltaClose, NL, NL >>
    /\ TextsOf(out) = << << "l", "o" >> >>


----------------------------------------------------------------------------
(* Gemini bodies delivered one complete array per chunk *)

\* the response fragments an array can hold: text-bearing ones (one of them with
\* an empty text) and one without candidates
ArrayItems ==
    { [has |-> TRUE, text |-> << "H", "e" >>],
      [has |-> TRUE, text |-> << "l" >>],
      [has |-> TRUE, text |-> << >>],
      [has |-> FALSE, text |-> << >>] }

ItemTokens(it) == IF it.has THEN Fragment(it.text) ELSE << MetaItem >>

ItemLists ==
    { << >> } \cup { << a >> : a \in ArrayItems }
              \cup { << a, b >> : a \in ArrayItems, b \in ArrayItems }

\* the serialized array of the items, elements separated by a comma and a newline
RECURSIVE JoinItems(_)
JoinItems(items) ==
    IF items = << >> THEN << >>
    ELSE IF Len(items) = 1 THEN ItemTokens(items[1])
    ELSE ItemTokens(items[1]) \o << Comma, NL >> \o JoinItems(Tail(items))

Array(items) == << LBracket >> \o JoinItems(items) \o << RBracket >>

ArrayChunks == { Array(items) : items \in ItemLists }

\* a read delivers one complete array: lines 361-382
GeminiReadArray ==
    /\ pc = "gemini_read"
    /\ upstream.ok
    /\ Len(upLog) < MaxReads
    /\ \E chunk \in ArrayChunks :
          /\ upLog' = Append(upLog, chunk)
          /\ out' = out \o GeminiChunk(buffer, chunk).frames
          /\ buffer' = GeminiChunk(buffer, chunk).buffer
    /\ UNCHANGED << env, pc, req, steps, provider, resp, calls, upstream, ctrl, thrown, peer >>

ReceiveGemini == ReceiveFor({"gemini"})

NextGeminiArrays ==
    \/ ReceiveGemini
    \/ CheckMethod
    \/ ParseBody
    \/ ResolveProvider
    \/ CheckCredential
    \/ DispatchFetch
    \/ FetchResolves
    \/ GeminiReadArray
    \/ GeminiDone

SpecGeminiArrays == InitTranslate /\ [][NextGeminiArrays]_vars

\* the non-empty texts of the elements of an array chunk, in order
ElementTexts(chunk) ==
    LET items == CHOOSE its \in ItemLists : Array(its) = chunk
        texts == [i \in 1..Len(items) |-> items[i].text]
    IN  SelectSeq(texts, LAMBDA t : t # << >>)

RECURSIVE ExpectedTexts(_)
ExpectedTexts(log) ==
    IF log = << >> THEN << >> ELSE ElementTexts(Head(log)) \o ExpectedTexts(Tail(log))

\* C13: Gemini, every chunk one complete JSON array: the normalizer emits one
\* text event per element with a non-empty text, in order, never merging two
\* elements, and keeps nothing of a consumed array in its buffer.
C13_OneEventPerArrayElement ==
    (provider = "gemini" /\ ctrl # "none" /\ upstream.ok) =>
        /\ TextsOf(out) = ExpectedTexts(upLog)
        /\ \A i \in 1..Len(out) : out[i].type = "text" => out[i].provider = "gemini"
        /\ buffer = << >>

\* C13 witness: an array of two text elements, then an array with an empty text
\* and a text, then the end of the body
C13_Witness ==
    /\ provider = "gemini"
    /\ pc = "done"
    /\ Len(upLog) = 2
    /\ upLog[1] = Array(<< [has |-> TRUE, text |-> << "H", "e" >>],
                           [has |-> TRUE, text |-> << "l" >>] >>)
    /\ upLog[2] = Array(<< [has |-> TRUE, text |-> << >>],
                           [has |-> TRUE, text |-> << "H", "e" >>] >>)
    /\ TextsOf(out) = << << "H", "e" >>, << "l" >>, << "H", "e" >> >>


----------------------------------------------------------------------------
(* Shape of the outbound frames *)

IsCanonicalFrame(f, p) ==
    \/ /\ f.type = "text"
       /\ DOMAIN f = {"type", "content", "provider"}
       /\ IsText(f.content)
       /\ f.provider = p
    \/ /\ f.type = "usage"
       /\ DOMAIN f = {"type", "usage"}
    \/ /\ f.type = "error"
       /\ DOMAIN f = {"type", "error"}
    \/ /\ f.type = "[DONE]"
       /\ DOMAIN f = {"type"}

\* C14: every frame written to the caller is a text event with a content string
\* and a provider id, a usage event, an error event or the [DONE] sentinel, and
\* the provider id of every text event is the provider the selector resolved.
C14_FramesAreCanonical ==
    ctrl # "none" =>
        /\ provider = selectProvider(RequestedProvider(req.body), env)
        /\ \A i \in 1..Len(out) : IsCanonicalFrame(out[i], provider)

\* C14 witness: a finished grok response that forwarded a text event
C14_Witness ==
    /\ provider = "grok"
    /\ pc = "done"
    /\ \E i \in 1..Len(out) : out[i].type = "text" /\ out[i].provider = "grok"
    /\ \E i \in 1..Len(out) : out[i].type = "[DONE]"


----------------------------------------------------------------------------
(* Order of the forwarded text *)

\* the first position from i on that holds no text character
RECURSIVE RunEnd(_, _)
RunEnd(s, i) ==
    IF i > Len(s) \/ s[i] \notin TextChars THEN i ELSE RunEnd(s, i + 1)

\* the texts found between an opening and a closing mark of the upstream body,
\* in the order the upstream produced them
RECURSIVE MarkedTexts(_, _, _, _)
MarkedTexts(s, i, open, close) ==
    IF i > Len(s) THEN << >>
    ELSE IF s[i] # open THEN MarkedTexts(s, i + 1, open, close)
    ELSE LET j == RunEnd(s, i + 1)
         IN  IF j <= Len(s) /\ s[j] = close
             THEN << SubSeq(s, i + 1, j - 1) >> \o MarkedTexts(s, j + 1, open, close)
             ELSE MarkedTexts(s, i + 1, open, close)

\* the text units the upstream produced so far
UpstreamTextUnits ==
    IF provider = "claude"
    THEN LET d == SelectSeq(upLog, LAMBDA e : /\ "type" \in DOMAIN e
                                              /\ e.type = "content_block_delta"
                                              /\ e.delta.type = "text_delta")
         IN  [i \in 1..Len(d) |-> d[i].delta.text]
    ELSE IF provider = "gemini"
    THEN MarkedTexts(Flat(upLog), 1, TextOpen, TextClose)
    ELSE MarkedTexts(Flat(upLog), 1, DeltaOpen, DeltaClose)

\* C15: for every provider the forwarded text events follow the order of the
\* upstream's text units, each unit forwarded at most once: the forwarded texts
\* are the upstream's units with some of them left out, nothing moved or repeated.
C15_TextInUpstreamOrder ==
    (ctrl # "none" /\ provider \in Providers) =>
        IsSubsequence(TextsOf(out), UpstreamTextUnits)

\* C15 witness: two Gemini fragments that arrived in different chunks were
\* parsed in one pass and forwarded in their upstream order
C15_Witness ==
    /\ provider = "gemini"
    /\ upstream.ok
    /\ Len(upLog) = 2
    /\ UpstreamTextUnits = << << "l" >>, << "o" >> >>
    /\ TextsOf(out) = << << "l" >>, << "o" >> >>


----------------------------------------------------------------------------
(* Forwarding before the next read *)

NonEmpty(texts) == SelectSeq(texts, LAMBDA t : t # << >>)

\* the texts of the complete data lines of each chunk read so far
RECURSIVE LineTexts(_)
LineTexts(log) ==
    IF log = << >> THEN << >>
    ELSE MarkedTexts(Head(log), 1, DeltaOpen, DeltaClose) \o LineTexts(Tail(log))

\* the normalizer is about to read from the upstream again
AtNextRead == pc \in {"claude_iter", "sse_read", "gemini_read"}

ClaudeForwarded == provider = "claude" => TextsOf(out) = UpstreamTextUnits

SSEForwarded ==
    provider \in {"openai", "grok"} => TextsOf(out) = NonEmpty(LineTexts(upLog))

\* a Gemini body is one array: it starts with the array's opening bracket
GeminiForwarded ==
    (provider = "gemini" /\ upLog # << >> /\ Head(upLog[1]) = LBracket)
        => TextsOf(out) = NonEmpty(UpstreamTextUnits)

\* C16: whenever a normalizer is about to read from the upstream again, the text
\* of every complete text-bearing unit it has read (text delta, complete data
\* line, complete response-fragment object) has already been written.
C16_ForwardedBeforeNextRead ==
    (AtNextRead /\ upstream.ok) =>
        /\ ClaudeForwarded
        /\ SSEForwarded
        /\ GeminiForwarded


----------------------------------------------------------------------------
(* The caller disconnects while a response is streaming *)

\* message of the TypeError controller.enqueue throws on a stream that is no
\* longer readable
InvalidState == "Invalid state: Controller is already closed"

ReceiveAny == ReceiveFor(Providers)

\* the normalizers while the outbound stream is readable
StreamWhileOpen ==
    /\ ctrl = "open"
    /\ \/ ClaudeEvent
       \/ ClaudeIterEnd
       \/ ClaudeFinal
       \/ SSERead
       \/ SSEDone
       \/ GeminiRead
       \/ GeminiDone

\* the caller goes away: the runtime cancels the outbound stream. The streams
\* are built from a start() callback alone (lines 236, 306, 355), so the
\* cancellation closes the stream and reaches nothing else.
CallerDisconnects ==
    /\ pc \in {"claude_iter", "claude_final", "sse_read", "gemini_read"}
    /\ ctrl = "open"
    /\ ctrl' = "cancelled"
    /\ UNCHANGED << env, pc, req, steps, provider, resp, calls, upstream, upLog, out,
                    buffer, thrown, peer >>

\* lines 239-244 after the cancellation: an event without text is skipped; the
\* enqueue of a text event throws, and so does the enqueue of the catch block
\* (line 282), so start() rejects
ClaudeEventAfterCancel ==
    /\ pc = "claude_iter"
    /\ ctrl = "cancelled"
    /\ Len(upLog) < MaxReads
    /\ \E chunk \in ClaudeEvents :
          /\ upLog' = Append(upLog, chunk)
          /\ IF ClaudeEventFrames(chunk) = << >>
             THEN UNCHANGED << pc, thrown >>
             ELSE pc' = "rejected" /\ thrown' = InvalidState
    /\ UNCHANGED << env, req, steps, provider, resp, calls, upstream, out, ctrl,
                    buffer, peer >>

ClaudeIterEndAfterCancel ==
    /\ ctrl = "cancelled"
    /\ ClaudeIterEnd

\* lines 246-284 after the cancellation: the enqueue of the usage event or of
\* [DONE] throws, and so does the enqueue of the catch block
ClaudeFinalAfterCancel ==
    /\ pc = "claude_final"
    /\ ctrl = "cancelled"
    /\ \E finalMessage \in FinalMessages : upLog' = Append(upLog, finalMessage)
    /\ thrown' = InvalidState
    /\ pc' = "rejected"
    /\ UNCHANGED << env, req, steps, provider, resp, calls, upstream, out, ctrl,
                    buffer, peer >>

\* lines 310-329 after the cancellation: the enqueue throws inside the inner try,
\* whose catch is empty, and the loop goes on to its next read
SSEReadAfterCancel ==
    /\ pc = "sse_read"
    /\ ctrl = "cancelled"
    /\ Len(upLog) < MaxReads
    /\ \E chunk \in (IF upstream.ok THEN SSEChunks ELSE SSEErrorChunks) :
          upLog' = Append(upLog, chunk)
    /\ UNCHANGED << env, pc, req, steps, provider, resp, calls, upstream, out, ctrl,
                    buffer, thrown, peer >>

\* lines 332-336 and 385-389 after the cancellation: the enqueue of [DONE]
\* throws, the outer catch calls controller.error, which does nothing on a
\* stream that is not readable
DoneAfterCancel ==
    /\ pc \in {"sse_read", "gemini_read"}
    /\ ctrl = "cancelled"
    /\ thrown' = InvalidState
    /\ upstream' = [upstream EXCEPT !.state = "ended"]
    /\ pc' = "done"
    /\ UNCHANGED << env, req, steps, provider, resp, calls, upLog, out, ctrl, buffer, peer >>

\* lines 361-382 after the cancellation: the enqueue throws before line 378 cut
\* the consumed array off the buffer
GeminiReadAfterCancel ==
    /\ pc = "gemini_read"
    /\ ctrl = "cancelled"
    /\ Len(upLog) < MaxReads
    /\ \E chunk \in (IF upstream.ok THEN GeminiChunks ELSE GeminiErrorChunks) :
          /\ upLog' = Append(upLog, chunk)
          /\ buffer' = IF GeminiChunk(buffer, chunk).frames = << >>
                       THEN GeminiChunk(buffer, chunk).buffer
                       ELSE buffer \o chunk
    /\ UNCHANGED << env, pc, req, steps, provider, resp, calls, upstream, out, ctrl,
                    thrown, peer >>

NextCancel ==
    \/ ReceiveAny
    \/ CheckMethod
    \/ ParseBody
    \/ ResolveProvider
    \/ CheckCredential
    \/ DispatchClaude
    \/ DispatchFetch
    \/ FetchResolves
    \/ StreamWhileOpen
    \/ CallerDisconnects
    \/ ClaudeEventAfterCancel
    \/ ClaudeIterEndAfterCancel
    \/ ClaudeFinalAfterCancel
    \/ SSEReadAfterCancel
    \/ GeminiReadAfterCancel
    \/ DoneAfterCancel

SpecCancel == InitTranslate /\ [][NextCancel]_vars

\* C17: once the caller has disconnected, in every interleaving with the
\* upstream's chunks: nothing more is written, no write raises an error that
\* escapes the normalizer (start() does not reject), and the upstream is not
\* read any further.
C17_CancelStopsTheLoop ==
    [][ctrl = "cancelled" =>
          /\ out' = out
          /\ pc' # "rejected"
          /\ upLog' = upLog
          /\ upstream' = upstream]_vars


----------------------------------------------------------------------------
(* Two invocations of the handler at once *)

\* most chunks each of the two invocations reads
MaxPeerReads == 2

\* `let buffer = ''` of line 358 belongs to the start() closure of the
\* invocation that runs it; a variant shares one buffer among the invocations
SharedBuffer == buffer

PeerBuffer == peer.buffer

\* lines 199-231 and 298-306 / 350-355 for a second, valid request
PeerStart ==
    /\ peer.pc = "none"
    /\ \E p \in {"gemini", "openai"} :
          peer' = [pc |-> ReadLoop(selectProvider(p, env)),
                   provider |-> selectProvider(p, env),
                   upLog |-> << >>,
                   out |-> << >>,
                   ctrl |-> "open",
                   buffer |-> << >>]
    /\ UNCHANGED << env, pc, req, steps, provider, resp, calls, upstream, upLog, out,
                    ctrl, buffer, thrown >>

\* chunks of the second invocation's OpenAI body
PeerSSEChunks == { DataLine(<< "H", "e" >>), DoneLine }

\* lines 310-329 in the second invocation
PeerSSERead ==
    /\ peer.pc = "sse_read"
    /\ Len(peer.upLog) < MaxPeerReads
    /\ \E chunk \in PeerSSEChunks :
          peer' = [peer EXCEPT !.upLog = Append(@, chunk),
                               !.out = @ \o SSEChunkFrames(chunk, peer.provider)]
    /\ UNCHANGED << env, pc, req, steps, provider, resp, calls, upstream, upLog, out,
                    ctrl, buffer, thrown >>

\* lines 361-382 in the second invocation
PeerGeminiRead ==
    /\ peer.pc = "gemini_read"
    /\ Len(peer.upLog) < MaxPeerReads
    /\ \E chunk \in GeminiChunks :
          peer' = [peer EXCEPT !.upLog = Append(@, chunk),
                               !.out = @ \o GeminiChunk(PeerBuffer, chunk).frames,
                               !.buffer = GeminiChunk(PeerBuffer, chunk).buffer]
    /\ UNCHANGED << env, pc, req, steps, provider, resp, calls, upstream, upLog, out,
                    ctrl, buffer, thrown >>

\* lines 332-333 and 385-386 in the second invocation
PeerDone ==
    /\ peer.pc \in {"sse_read", "gemini_read"}
    /\ peer' = [peer EXCEPT !.out = Append(@, DONE), !.ctrl = "closed", !.pc = "done"]
    /\ UNCHANGED << env, pc, req, steps, provider, resp, calls, upstream, upLog, out,
                    ctrl, buffer, thrown >>

\* lines 361-382 in the first invocation
FirstGeminiRead ==
    /\ Len(upLog) < MaxPeerReads
    /\ GeminiRead

\* the first request goes to Gemini, the second to Gemini or OpenAI
NextConcurrent ==
    \/ ReceiveGemini
    \/ CheckMethod
    \/ ParseBody
    \/ ResolveProvider
    \/ CheckCredential
    \/ DispatchFetch
    \/ FetchResolves
    \/ FirstGeminiRead
    \/ GeminiDone
    \/ PeerStart
    \/ PeerSSERead
    \/ PeerGeminiRead
    \/ PeerDone

SpecConcurrent == InitTranslate /\ [][NextConcurrent]_vars

\* what one request run on its own makes of its upstream log: the frames written
\* and the buffer left
RECURSIVE Alone(_, _, _, _)
Alone(p, log, frames, buf) ==
    IF log = << >> THEN [frames |-> frames, buffer |-> buf]
    ELSE IF p = "gemini"
    THEN LET r == GeminiChunk(buf, Head(log))
         IN  Alone(p, Tail(log), frames \o r.frames, r.buffer)
    ELSE Alone(p, Tail(log), frames \o SSEChunkFrames(Head(log), p), buf)

\* the frames and the buffer of a request are those of its run alone
AsAlone(p, log, finished, frames, buf) ==
    LET a == Alone(p, log, << >>, << >>)
    IN  /\ frames = a.frames \o (IF finished THEN << DONE >> ELSE << >>)
        /\ buf = a.buffer

\* C18: two requests handled at once, their upstream reads interleaved in any
\* way: each caller receives the frames its request produces when run alone,
\* tagged with its own provider, and each buffer holds what its own request left.
C18_RequestsAreIndependent ==
    /\ ctrl # "none" => AsAlone(provider, upLog, pc = "done", out, buffer)
    /\ peer.ctrl # "none" =>
          /\ AsAlone(peer.provider, peer.upLog, peer.pc = "done", peer.out, peer.buffer)
          /\ peer.provider \in {"gemini", "openai"}

\* C18 witness: both requests go to Gemini; the first holds half an array in its
\* buffer while the second received a whole array and forwarded its text
C18_Witness ==
    /\ provider = "gemini"
    /\ peer.provider = "gemini"
    /\ pc = "gemini_read"
    /\ upstream.ok
    /\ Len(upLog) = 1
    /\ buffer # << >>
    /\ out = << >>
    /\ TextsOf(peer.out) = << << "H", "e" >> >>
    /\ peer.buffer = << >>


----------------------------------------------------------------------------
(* Cost accounting over usage records and pricing rows *)

\* model overrides of a Claude request: none, the priced models, an unpriced one
ModelOverrides ==
    {Undefined, "claude-haiku-3-5-20241022", "gpt-4o", "gpt-4o-mini", "claude-3-opus"}

ReceivePriced ==
    /\ pc = "idle"
    /\ \E m \in ModelOverrides :
          req' = [method |-> "POST",
                  body |-> [json |-> "object",
                            messages |-> SomeMessages(<< [role |-> "user", content |-> "hi"] >>),
                            system |-> Undefined,
                            provider |-> "claude",
                            model |-> m]]
    /\ pc' = "method"
    /\ UNCHANGED << env, steps, provider, resp, calls, upstream, upLog, out, ctrl,
                    buffer, thrown, peer >>

\* usage records of a final message: the two token counts, the cache counts
\* present or absent
UsageRecords ==
    [input_tokens : { Count(n) : n \in {0, 1, 1000000, 1234567} },
     output_tokens : { Count(n) : n \in {0, 7, 500} },
     cache_creation_input_tokens : {NoCount, Count(0), Count(2000)},
     cache_read_input_tokens : {NoCount, Count(0), Count(2000)}]

\* lines 246-279 for a final message that carries usage
ClaudeFinalWithUsage ==
    /\ pc = "claude_final"
    /\ \E usage \in UsageRecords :
          LET finalMessage == [hasUsage |-> TRUE, usage |-> usage]
          IN  /\ upLog' = Append(upLog, finalMessage)
              /\ out' = out \o ClaudeFinalFrames(finalMessage, calls[Len(calls)].model)
    /\ ctrl' = "closed"
    /\ pc' = "done"
    /\ UNCHANGED << env, req, steps, provider, resp, calls, upstream, buffer, thrown, peer >>

NextCost ==
    \/ ReceivePriced
    \/ CheckMethod
    \/ ParseBody
    \/ ResolveProvider
    \/ CheckCredential
    \/ DispatchClaude
    \/ ClaudeIterEnd
    \/ ClaudeFinalWithUsage

SpecCost == InitTranslate /\ [][NextCost]_vars

\* a usage event has been written
UsageWritten == pc = "done" /\ \E i \in 1..Len(out) : out[i].type = "usage"

LastUsage == upLog[Len(upLog)].usage

RowInUse == Pricing(calls[Len(calls)].model)

\* a cost that is a number of that many 1e-8 dollars
IsAmount(x, v) == ~x.nan /\ x.v = v

HasAllPrices(row) == ~row.cache_write.nan /\ ~row.cache_read.nan

\* C19: for every usage record and pricing row, before formatting: input cost
\* = inputTokens x input price / 1e6, output cost = outputTokens x output price
\* / 1e6, total = input + output + cache-write + cache-read cost, savings =
\* cacheReadTokens x (input price - cacheRead price) / 1e6 with absent cache
\* counts as 0; 1,000,000 input tokens at 3.00 are formatted as 3.000000.
C19_CostFormulas ==
    UsageWritten =>
        LET raw == RawCost(LastUsage, RowInUse)
            reads == IF LastUsage.cache_read_input_tokens.defined
                     THEN LastUsage.cache_read_input_tokens.n ELSE 0
        IN  /\ IsAmount(raw.input, LastUsage.input_tokens.n * RowInUse.input.v)
            /\ IsAmount(raw.output, LastUsage.output_tokens.n * RowInUse.output.v)
            /\ IsAmount(raw.total,
                        raw.input.v + raw.output.v + raw.cache_write.v + raw.cache_read.v)
            /\ IsAmount(raw.savings, reads * (RowInUse.input.v - RowInUse.cache_read.v))
            /\ (LastUsage.input_tokens.n = 1000000 /\ RowInUse.input.v = SonnetInput)
                  => Cost(LastUsage, RowInUse).input = [nan |-> FALSE, micro |-> 3000000]

\* C20: a pricing row without cache prices is used with cache prices 0: every
\* cost field of the usage event is a number, and the total of such a row is
\* the input cost plus the output cost.
C20_MissingCachePricesAreZero ==
    \A i \in 1..Len(out) :
        out[i].type = "usage" =>
            LET cost == out[i].usage.cost
                raw == RawCost(LastUsage, RowInUse)
            IN  /\ ~cost.input.nan
                /\ ~cost.output.nan
                /\ ~cost.cache_write.nan
                /\ ~cost.cache_read.nan
                /\ ~cost.total.nan
                /\ ~cost.savings.nan
                /\ ~HasAllPrices(RowInUse) =>
                      IsAmount(raw.total, raw.input.v + raw.output.v)


----------------------------------------------------------------------------
(* Requests without messages *)

NoMessagesToSend(body) ==
    body.json = "object" /\ (~body.messages.defined \/ body.messages.list = << >>)

\* C21: for every provider, a request whose message list is empty or missing is
\* rejected before any upstream call: no upstream request is issued for it and
\* no stream is opened.
C21_EmptyListNeverReachesUpstream ==
    NoMessagesToSend(req.body) => (calls = << >> /\ ctrl = "none")


----------------------------------------------------------------------------
(* The caller's message list across a translator call *)

\* a variant of the OpenAI-compatible translators that puts the system message
\* into the caller's array (messages.unshift) before sending it
CallerListUnshift(p, messages, system) ==
    IF p \in {"openai", "grok"} /\ Truthy(system)
    THEN SomeMessages(<< [role |-> "system", content |-> system] >> \o messages.list)
    ELSE messages

\* the caller's array after the translator ran: messages.map (lines 81, 151) and
\* the spread of lines 125 and 179 build new arrays and write to no element
CallerList(p, messages, system) ==
    CASE p = "claude" -> messages
      [] p = "gemini" -> messages
      [] OTHER        -> messages

\* lines 232-233, 298-300, 350-351 together with the translator's effect on the
\* list it was handed
DispatchTranslator ==
    /\ pc = "dispatch"
    /\ ~TranslatorThrows(provider, req.body.messages, req.body.system)
    /\ steps' = Append(steps, "dispatch")
    /\ calls' = Append(calls, Translate(provider, req.body))
    /\ req' = [req EXCEPT !.body.messages =
                  CallerList(provider, req.body.messages, req.body.system)]
    /\ IF provider = "claude"
       THEN /\ upstream' = [ok |-> TRUE, state |-> "open"]
            /\ resp' = StreamResponse
            /\ ctrl' = "open"
            /\ pc' = "claude_iter"
       ELSE /\ upstream' = [ok |-> TRUE, state |-> "pending"]
            /\ pc' = "fetch"
            /\ UNCHANGED << resp, ctrl >>
    /\ UNCHANGED << env, provider, upLog, out, buffer, thrown, peer >>

NextFrame ==
    \/ ReceiveConversation
    \/ CheckMethod
    \/ ParseBody
    \/ ResolveProvider
    \/ CheckCredential
    \/ DispatchTranslator

SpecFrame == InitTranslate /\ [][NextFrame]_vars

\* C22: no translator changes the caller's message list: across the call the
\* list keeps its length, its elements, their order, roles and contents.
C22_CallerListUnchanged ==
    [][pc = "dispatch" => req'.body.messages = req.body.messages]_vars

\* C22 witness: an OpenAI-compatible translator sent a system message ahead of a
\* three-message conversation, and the caller still holds its three messages
C22_Witness ==
    /\ calls # << >>
    /\ provider = "grok"
    /\ Truthy(req.body.system)
    /\ Len(calls[1].messages.list) = 4
    /\ Len(req.body.messages.list) = 3


----------------------------------------------------------------------------
(* One Gemini array delivered in pieces *)

\* the element lists of the arrays that arrive in pieces
SplitItemLists ==
    { << [has |-> TRUE, text |-> << "H", "e" >>] >>,
      << [has |-> TRUE, text |-> << "H", "e" >>], [has |-> TRUE, text |-> << "l" >>] >>,
      << [has |-> TRUE, text |-> << >>], [has |-> TRUE, text |-> << "H", "e" >>] >>,
      << [has |-> FALSE, text |-> << >>], [has |-> TRUE, text |-> << "l" >>] >> }

\* those arrays, with the texts of their elements
SplitBodies ==
    { [tokens |-> Array(items), texts |-> [i \in 1..Len(items) |-> items[i].text]] :
        items \in SplitItemLists }

\* the first array of the body has arrived completely
FirstArrayRead(log) == \E b \in SplitBodies : IsPrefix(b.tokens, Flat(log))

\* a read delivers a further piece of the array, cut anywhere, and once the
\* array is complete a further whole array: lines 361-382
GeminiReadPiece ==
    /\ pc = "gemini_read"
    /\ upstream.ok
    /\ Len(upLog) < MaxReads
    /\ \E chunk \in (IF FirstArrayRead(upLog) THEN ArrayChunks
                     ELSE NextPieces(upLog, SplitBodies)) :
          /\ upLog' = Append(upLog, chunk)
          /\ out' = out \o GeminiChunk(buffer, chunk).frames
          /\ buffer' = GeminiChunk(buffer, chunk).buffer
    /\ UNCHANGED << env, pc, req, steps, provider, resp, calls, upstream, ctrl, thrown, peer >>

NextGeminiSplit ==
    \/ ReceiveGemini
    \/ CheckMethod
    \/ ParseBody
    \/ ResolveProvider
    \/ CheckCredential
    \/ DispatchFetch
    \/ FetchResolves
    \/ GeminiReadPiece
    \/ GeminiDone

SpecGeminiSplit == InitTranslate /\ [][NextGeminiSplit]_vars

\* the chunks of a log after the first n tokens
RECURSIVE ChunksAfter(_, _)
ChunksAfter(log, n) ==
    IF n <= 0 \/ log = << >> THEN log
    ELSE ChunksAfter(Tail(log), n - Len(Head(log)))

\* C23: Gemini, one array split across chunks: while the array is incomplete
\* nothing is emitted and the buffer keeps everything read; when its last chunk
\* arrives every element with a non-empty text is emitted once, in array order,
\* and the array leaves the buffer, so that later chunks emit only their own
\* elements.
C23_SplitArrayEmittedOnce ==
    (provider = "gemini" /\ ctrl # "none" /\ upstream.ok) =>
        \A b \in SplitBodies :
            /\ (IsPrefix(Flat(upLog), b.tokens) /\ Flat(upLog) # b.tokens)
                  => (TextsOf(out) = << >> /\ buffer = Flat(upLog))
            /\ IsPrefix(b.tokens, Flat(upLog))
                  => /\ TextsOf(out)
                          = NonEmpty(b.texts)
                            \o ExpectedTexts(ChunksAfter(upLog, Len(b.tokens)))
                     /\ buffer = << >>

\* C23 witness: an array of two fragments arrived in three chunks, the first cut
\* inside a fragment, and both texts were emitted when the third chunk came
C23_Witness ==
    /\ provider = "gemini"
    /\ Len(upLog) = 3
    /\ Len(upLog[1]) = 4
    /\ Flat(upLog) = Array(<< [has |-> TRUE, text |-> << "H", "e" >>],
                              [has |-> TRUE, text |-> << "l" >>] >>)
    /\ TextsOf(out) = << << "H", "e" >>, << "l" >> >>
    /\ buffer = << >>


----------------------------------------------------------------------------
(* A Gemini body of several arrays, cut anywhere *)

\* two complete arrays one after the other, the second of a single fragment,
\* with the texts of their elements
StreamBodies ==
    { [tokens |-> a.tokens \o b.tokens, texts |-> a.texts \o b.texts] :
        a \in SplitBodies, b \in { c \in SplitBodies : Len(c.texts) = 1 } }

\* a read delivers a further piece of the body, cut anywhere: lines 361-382
GeminiReadStream ==
    /\ pc = "gemini_read"
    /\ upstream.ok
    /\ Len(upLog) < MaxReads
    /\ \E chunk \in NextPieces(upLog, StreamBodies) :
          /\ upLog' = Append(upLog, chunk)
          /\ out' = out \o GeminiChunk(buffer, chunk).frames
          /\ buffer' = GeminiChunk(buffer, chunk).buffer
    /\ UNCHANGED << env, pc, req, steps, provider, resp, calls, upstream, ctrl, thrown, peer >>

NextGeminiStream ==
    \/ ReceiveGemini
    \/ CheckMethod
    \/ ParseBody
    \/ ResolveProvider
    \/ CheckCredential
    \/ DispatchFetch
    \/ FetchResolves
    \/ GeminiReadStream
    \/ GeminiDone

SpecGeminiStream == InitTranslate /\ [][NextGeminiStream]_vars

\* C24: Gemini output does not depend on chunk boundaries: once a body that is
\* a concatenation of complete arrays has been read, however it was cut into
\* chunks, the emitted texts are the non-empty fragment texts of all its
\* arrays, in order.
C24_ChunkBoundariesDoNotMatter ==
    (provider = "gemini" /\ ctrl # "none" /\ upstream.ok) =>
        \A b \in StreamBodies :
            Flat(upLog) = b.tokens => TextsOf(out) = NonEmpty(b.texts)


----------------------------------------------------------------------------
(* OpenAI-compatible bodies with lines that are not JSON *)

\* the lines of a body: two well-formed ones with text and one that JSON.parse
\* rejects (an object cut off inside its text)
BodyLines ==
    { [good |-> TRUE, tokens |-> DataLine(<< "H", "e" >>), text |-> << "H", "e" >>],
      [good |-> TRUE, tokens |-> DataLine(<< "l", "o" >>), text |-> << "l", "o" >>],
      [good |-> FALSE, tokens |-> << DataPrefix, DeltaOpen, "l", NL, NL >>, text |-> << >>] }

LineLists ==
    { << a >> : a \in BodyLines } \cup { << a, b >> : a \in BodyLines, b \in BodyLines }

RECURSIVE JoinLines(_)
JoinLines(lines) ==
    IF lines = << >> THEN << >> ELSE Head(lines).tokens \o JoinLines(Tail(lines))

\* chunks of one or two complete lines
LineChunks == { JoinLines(lines) : lines \in LineLists }

\* a read delivers one or two complete lines: lines 310-329
SSEReadLines ==
    /\ pc = "sse_read"
    /\ upstream.ok
    /\ Len(upLog) < MaxReads
    /\ \E chunk \in LineChunks :
          /\ upLog' = Append(upLog, chunk)
          /\ out' = out \o SSEChunkFrames(chunk, provider)
    /\ UNCHANGED << env, pc, req, steps, provider, resp, calls, upstream, ctrl,
                    buffer, thrown, peer >>

NextSSEMalformed ==
    \/ ReceiveSSE
    \/ CheckMethod
    \/ ParseBody
    \/ ResolveProvider
    \/ CheckCredential
    \/ DispatchFetch
    \/ FetchResolves
    \/ SSEReadLines
    \/ SSEDone

SpecSSEMalformed == InitTranslate /\ [][NextSSEMalformed]_vars

\* the texts of the well-formed lines of a chunk, in order
GoodTexts(chunk) ==
    LET lines == CHOOSE ls \in LineLists : JoinLines(ls) = chunk
        good == SelectSeq(lines, LAMBDA l : l.good)
    IN  [i \in 1..Len(good) |-> good[i].text]

RECURSIVE AllGoodTexts(_)
AllGoodTexts(log) ==
    IF log = << >> THEN << >> ELSE GoodTexts(Head(log)) \o AllGoodTexts(Tail(log))

\* C25: SSE passthrough: a data line that is not valid JSON is swallowed, no
\* error surfaces and the stream is not aborted; every complete well-formed line
\* with text, in the same chunk or a later one, yields its text event, and the
\* finished stream ends with [DONE].
C25_MalformedLinesSwallowed ==
    (provider \in {"openai", "grok"} /\ ctrl # "none" /\ upstream.ok) =>
        /\ TextsOf(out) = AllGoodTexts(upLog)
        /\ thrown = Undefined
        /\ ctrl # "errored"
        /\ \A i \in 1..Len(out) : out[i].type # "error"
        /\ pc = "done" => (ctrl = "closed" /\ out[Len(out)] = DONE)

\* C25 witness: a chunk with a line that is not JSON followed by a good line,
\* then a second chunk with a good line, then the end of the stream
C25_Witness ==
    /\ provider = "openai"
    /\ pc = "done"
    /\ Len(upLog) = 2
    /\ upLog[1] = << DataPrefix, DeltaOpen, "l", NL, NL >> \o DataLine(<< "H", "e" >>)
    /\ upLog[2] = DataLine(<< "l", "o" >>)
    /\ TextsOf(out) = << << "H", "e" >>, << "l", "o" >> >>
    /\ out[Len(out)] = DONE


----------------------------------------------------------------------------
(* Cache annotation of the Claude translator *)

CacheableBlock(text) == [type |-> "text", text |-> text, cache_control |-> "ephemeral"]

\* C26: Claude translator: of n >= 2 messages exactly the one at index n-2
\* (counting from 0) is rewritten as a cacheable text block with the same role
\* and text, every other message is forwarded as given, a single message is never
\* annotated; the system prompt is sent as one cacheable text block when present
\* and left out otherwise.
C26_CacheSecondToLast ==
    (calls # << >> /\ provider = "claude") =>
        LET input == req.body.messages.list
            sent == calls[1].messages.list
            n == Len(input)
        IN  /\ Len(sent) = n
            /\ \A i \in 1..n :
                  IF n >= 2 /\ i = n - 1
                  THEN sent[i] = [role |-> input[i].role,
                                  blocks |-> << CacheableBlock(input[i].content) >>]
                  ELSE sent[i] = input[i]
            /\ calls[1].system = IF req.body.system # Undefined
                                 THEN << CacheableBlock(req.body.system) >>
                                 ELSE << >>

\* C26 witness: three messages and a system prompt: the middle message alone is
\* annotated and the system prompt is sent as a cacheable block
C26_Witness ==
    /\ calls # << >>
    /\ provider = "claude"
    /\ Len(calls[1].messages.list) = 3
    /\ "blocks" \notin DOMAIN calls[1].messages.list[1]
    /\ "blocks" \in DOMAIN calls[1].messages.list[2]
    /\ "blocks" \notin DOMAIN calls[1].messages.list[3]
    /\ Len(calls[1].system) = 1


----------------------------------------------------------------------------
(* MCQ proxy: the handler of src/unnamed/part_000 *)

Tools == {"mcq_generate", "mcq_record", "mcq_get_status", "mcq_bogus"}

\* the `args` of a tool call: an answer to a question whose correct answer is
\* "A" or "C"
ToolArgs ==
    [selected_answer : {"A", "B"}, correct_answer : {"A", "C"}]

MCQResponse(status, kind) ==
    [status |-> status, contentType |-> "application/json", kind |-> kind]

\* a response whose content is a question object
QuestionResponse(options, correct_answer) ==
    [status |-> 200, contentType |-> "application/json", kind |-> "question",
     options |-> options, correct_answer |-> correct_answer]

\* lines 113-129
GenericQuestion ==
    QuestionResponse({"A fundamental programming concept",
                      "A design pattern for software architecture",
                      "A method for organizing code",
                      "All of the above could apply"},
                     "All of the above could apply")

\* lines 179-195
FinalFallbackQuestion ==
    QuestionResponse({"It simplifies complex operations",
                      "It improves code organization",
                      "It enables better abstraction",
                      "It depends on the specific use case"},
                     "It depends on the specific use case")

\* lines 59-74
RecordMock(args) ==
    [status |-> 200, contentType |-> "application/json", kind |-> "record",
     was_correct |-> (args.selected_answer = args.correct_answer)]

InitMCQ ==
    /\ env \in {{}, {"ANTHROPIC_API_KEY"}}
    /\ pc = "idle"
    /\ req = [method |-> "none", tool |-> "none", args |-> CHOOSE a \in ToolArgs : TRUE]
    /\ steps = << >>
    /\ provider = Undefined
    /\ resp = NoResp
    /\ calls = << >>
    /\ upstream = NoUpstream
    /\ upLog = << >>
    /\ out = << >>
    /\ ctrl = "none"
    /\ buffer = << >>
    /\ thrown = Undefined
    /\ peer = NoPeer

MCQReceive ==
    /\ pc = "idle"
    /\ \E m \in {"POST", "GET"}, t \in Tools, a \in ToolArgs :
          req' = [method |-> m, tool |-> t, args |-> a]
    /\ pc' = "mcq_method"
    /\ UNCHANGED << env, steps, provider, resp, calls, upstream, upLog, out, ctrl,
                    buffer, thrown, peer >>

\* lines 11-31: the method check, then the call to the MCQMCP server is issued
MCQCall ==
    /\ pc = "mcq_method"
    /\ IF req.method # "POST"
       THEN /\ resp' = MCQResponse(405, "error")
            /\ pc' = "done"
            /\ UNCHANGED << calls, upstream >>
       ELSE /\ calls' = Append(calls, "mcqmcp")
            /\ upstream' = [ok |-> TRUE, state |-> "pending"]
            /\ pc' = "mcq_call"
            /\ UNCHANGED resp
    /\ UNCHANGED << env, req, steps, provider, upLog, out, ctrl, buffer, thrown, peer >>

\* lines 33-49: the server answers with an OK status
MCQServerOk ==
    /\ pc = "mcq_call"
    /\ upstream' = [ok |-> TRUE, state |-> "ended"]
    /\ resp' = MCQResponse(200, "passthrough")
    /\ pc' = "done"
    /\ UNCHANGED << env, req, steps, provider, calls, upLog, out, ctrl, buffer, thrown, peer >>

\* what lines 54-95 answer for a tool, or that Claude is to be asked
Fallback(tool, args, e) ==
    CASE tool = "mcq_generate" ->
           IF "ANTHROPIC_API_KEY" \notin e
           THEN [ask |-> FALSE, resp |-> GenericQuestion]
           ELSE [ask |-> TRUE, resp |-> NoResp]
      [] tool = "mcq_record" -> [ask |-> FALSE, resp |-> RecordMock(args)]
      [] tool = "mcq_get_status" -> [ask |-> FALSE, resp |-> MCQResponse(200, "status")]
      [] OTHER -> [ask |-> FALSE, resp |-> MCQResponse(400, "error")]

\* lines 33, 51-95: the server answers with a non-OK status
MCQServerNotOk ==
    /\ pc = "mcq_call"
    /\ upstream' = [ok |-> FALSE, state |-> "ended"]
    /\ LET f == Fallback(req.tool, req.args, env)
       IN  IF f.ask
           THEN /\ calls' = Append(calls, "anthropic")
                /\ pc' = "mcq_claude"
                /\ UNCHANGED resp
           ELSE /\ resp' = f.resp
                /\ pc' = "done"
                /\ UNCHANGED calls
    /\ UNCHANGED << env, req, steps, provider, upLog, out, ctrl, buffer, thrown, peer >>

\* lines 22, 97-102: the call to the server rejects; the catch answers 500
MCQServerFails ==
    /\ pc = "mcq_call"
    /\ \E error \in TransportErrors : thrown' = error
    /\ upstream' = [ok |-> FALSE, state |-> "rejected"]
    /\ resp' = MCQResponse(500, "error")
    /\ pc' = "done"
    /\ UNCHANGED << env, req, steps, provider, calls, upLog, out, ctrl, buffer, peer >>

\* what Claude can answer: a question whose correct answer is an option, one
\* whose correct answer is none of its options, a text without an object
ClaudeReplies ==
    { [json |-> TRUE, options |-> {"A", "B", "C", "D"}, correct_answer |-> "B"],
      [json |-> TRUE, options |-> {"A", "B", "C", "D"}, correct_answer |-> "E"],
      [json |-> FALSE, options |-> {}, correct_answer |-> ""] }

\* lines 159-196: Claude's reply is parsed and passed on as it is; without an
\* object in the reply the final fallback question is sent
MCQClaudeAnswers ==
    /\ pc = "mcq_claude"
    /\ \E reply \in ClaudeReplies :
          /\ upLog' = Append(upLog, reply)
          /\ resp' = IF reply.json
                     THEN QuestionResponse(reply.options, reply.correct_answer)
                     ELSE FinalFallbackQuestion
    /\ pc' = "done"
    /\ UNCHANGED << env, req, steps, provider, calls, upstream, out, ctrl, buffer,
                    thrown, peer >>

\* lines 133, 177-196: the call to Claude rejects
MCQClaudeFails ==
    /\ pc = "mcq_claude"
    /\ resp' = FinalFallbackQuestion
    /\ pc' = "done"
    /\ UNCHANGED << env, req, steps, provider, calls, upstream, upLog, out, ctrl, buffer,
                    thrown, peer >>

NextMCQ ==
    \/ MCQReceive
    \/ MCQCall
    \/ MCQServerOk
    \/ MCQServerNotOk
    \/ MCQServerFails
    \/ MCQClaudeAnswers
    \/ MCQClaudeFails

SpecMCQ == InitMCQ /\ [][NextMCQ]_vars

\* the MCQMCP server answered with a non-OK status or the call to it failed
ServerUnavailable ==
    pc = "done" /\ req.method = "POST" /\ calls # << >> /\ ~upstream.ok

\* C27: MCQ proxy, server unavailable (non-OK status or failed call):
\* mcq_generate is answered 200 with a question whose correct answer is one of
\* its options, mcq_record and mcq_get_status get their mock responses, and an
\* unknown tool, and only it, gets 400.
C27_FallbackWhenUnavailable ==
    ServerUnavailable =>
        CASE req.tool = "mcq_generate" ->
               /\ resp.status = 200
               /\ resp.kind = "question"
               /\ resp.correct_answer \in resp.options
          [] req.tool = "mcq_record" -> resp.status = 200 /\ resp.kind = "record"
          [] req.tool = "mcq_get_status" -> resp.status = 200 /\ resp.kind = "status"
          [] OTHER -> resp.status = 400


----------------------------------------------------------------------------
(* What the OpenAI-compatible loop keeps from one chunk to the next *)

\* a variant that keeps the text after the last newline for the next chunk
SSECarryRest(text) == SubSeq(text, LastIndexOf(text, NL) + 1, Len(text))

\* `chunk` and `lines` are constants of the loop body (lines 313-314) and the
\* decoder is used without the stream option: nothing of a chunk's text is
\* kept for the next iteration
SSECarry(text) == << >>

\* one iteration of the loop on the text it has in hand: lines 310-329
SSEReadCarrying ==
    /\ pc = "sse_read"
    /\ upstream.ok
    /\ Len(upLog) < MaxReads
    /\ \E chunk \in NextPieces(upLog, SSEBodies) :
          /\ upLog' = Append(upLog, chunk)
          /\ out' = out \o SSEChunkFrames(buffer \o chunk, provider)
          /\ buffer' = SSECarry(buffer \o chunk)
    /\ UNCHANGED << env, pc, req, steps, provider, resp, calls, upstream, ctrl,
                    thrown, peer >>

NextSSEStateless ==
    \/ ReceiveSSE
    \/ CheckMethod
    \/ ParseBody
    \/ ResolveProvider
    \/ CheckCredential
    \/ DispatchFetch
    \/ FetchResolves
    \/ SSEReadCarrying
    \/ SSEDone

SpecSSEStateless == InitTranslate /\ [][NextSSEStateless]_vars

\* C28: SSE passthrough keeps no state between chunks: the frames written for a
\* sequence of chunks are the frames of each chunk processed alone, one after
\* the other, and nothing of a chunk is left over for the next.
C28_ChunksProcessedAlone ==
    (provider \in {"openai", "grok"} /\ ctrl # "none" /\ upstream.ok) =>
        AsAlone(provider, upLog, pc = "done", out, buffer)

\* C28 witness: the two halves of a line came in two chunks and gave no event,
\* although the second chunk also brought a whole line, which was forwarded
C28_Witness ==
    /\ provider = "openai"
    /\ Len(upLog) = 2
    /\ upLog[1] = << DataPrefix, DeltaOpen, "H" >>
    /\ Len(upLog[2]) > 4
    /\ TextsOf(out) = << << "l", "o" >> >>
    /\ buffer = << >>


----------------------------------------------------------------------------
(* Chat client: the read loop of handleSendMessage *)

\* `data: ${JSON.stringify({ type: 'text', content, provider })}\n\n`, cut at the
\* content string
FrameOpen == "{\"type\":\"text\",\"content\":\""

FrameClose == "\",\"provider\":\"claude\"}"

UsageBody == "{\"type\":\"usage\",\"usage\":{}}"

\* the bytes the relay writes for a frame
Serialize(f) ==
    CASE f.type = "text" -> << DataPrefix, FrameOpen >> \o f.content \o << FrameClose, NL, NL >>
      [] f.type = "usage" -> << DataPrefix, UsageBody, NL, NL >>
      [] OTHER -> << DataPrefix, DoneMarker, NL, NL >>

RECURSIVE SerializeAll(_)
SerializeAll(frames) ==
    IF frames = << >> THEN << >> ELSE Serialize(Head(frames)) \o SerializeAll(Tail(frames))

\* complete relay streams: the frames written and their bytes
RelayStreams ==
    { [frames |-> fs, tokens |-> SerializeAll(fs)] :
        fs \in { << TextFrame(<< "H", "e" >>, "claude"), TextFrame(<< "l", "o" >>, "claude"),
                    DONE >>,
                 << TextFrame(<< "H", "e", "l" >>, "claude"),
                    UsageFrame(UsageRecord(NoUsage, "claude-sonnet-4-5-20250514")), DONE >> } }

\* JSON.parse(line.slice(6)) and data.type === 'text': the content, if any
ClientLineText(line) ==
    IF /\ Len(line) >= 3
       /\ line[1] = DataPrefix
       /\ line[2] = FrameOpen
       /\ line[Len(line)] = FrameClose
       /\ IsText(SubSeq(line, 3, Len(line) - 1))
    THEN SubSeq(line, 3, Len(line) - 1)
    ELSE << >>

\* what the lines of one chunk add to aiContent (README lines 477-495)
RECURSIVE ClientLinesText(_)
ClientLinesText(lines) ==
    IF lines = << >> THEN << >>
    ELSE ClientLineText(Head(lines)) \o ClientLinesText(Tail(lines))

ClientChunkText(chunk) == ClientLinesText(Split(chunk, NL))

\* the request is sent and the response arrives: README lines 436-458
ClientSend ==
    /\ pc = "idle"
    /\ pc' = "client_read"
    /\ upstream' = [ok |-> TRUE, state |-> "open"]
    /\ buffer' = << >>
    /\ UNCHANGED << env, req, steps, provider, resp, calls, upLog, out, ctrl, thrown, peer >>

\* a read delivers the next bytes of the relay's stream, cut anywhere by the
\* transport; `buffer` is aiContent: README lines 472-495
ClientRead ==
    /\ pc = "client_read"
    /\ Len(upLog) < MaxReads
    /\ \E chunk \in NextPieces(upLog, RelayStreams) :
          /\ upLog' = Append(upLog, chunk)
          /\ buffer' = buffer \o ClientChunkText(chunk)
    /\ UNCHANGED << env, pc, req, steps, provider, resp, calls, upstream, out, ctrl,
                    thrown, peer >>

\* the stream completes; a non-empty text is persisted: README lines 473-474, 498-502
ClientDone ==
    /\ pc = "client_read"
    /\ \E s \in RelayStreams : Flat(upLog) = s.tokens
    /\ out' = IF buffer # << >> THEN Append(out, [type |-> "saved", content |-> buffer])
              ELSE out
    /\ upstream' = [upstream EXCEPT !.state = "ended"]
    /\ pc' = "done"
    /\ UNCHANGED << env, req, steps, provider, resp, calls, upLog, ctrl, buffer, thrown, peer >>

NextClient ==
    \/ ClientSend
    \/ ClientRead
    \/ ClientDone

SpecClient == InitTranslate /\ [][NextClient]_vars

\* the contents of the text frames of a stream, one after the other
RECURSIVE RelayText(_)
RelayText(frames) ==
    IF frames = << >> THEN << >>
    ELSE (IF Head(frames).type = "text" THEN Head(frames).content ELSE << >>)
         \o RelayText(Tail(frames))

\* C29: chat client: when the relay's stream has completed, however the
\* transport cut it into chunks, the text assembled and persisted is the
\* concatenation, in order, of the contents of the text events the relay wrote.
C29_ClientAssemblesRelayText ==
    pc = "done" =>
        \A s \in RelayStreams :
            Flat(upLog) = s.tokens =>
                /\ buffer = RelayText(s.frames)
                /\ out = << [type |-> "saved", content |-> RelayText(s.frames)] >>


----------------------------------------------------------------------------
(* Invite links: getInviteLink and useInviteLink *)

MaxUses == 2

MaxCallers == 2

Callers == 1..MaxCallers

IdleCaller == [at |-> "idle", link |-> 0, result |-> "none"]

\* the row of invite_links that createInviteLink inserted with maxUses = N, and
\* the concurrent callers of useInviteLink on its code, none started yet
InitInvite ==
    /\ env \in {{}, {"VITE_SUPABASE_URL", "VITE_SUPABASE_ANON_KEY"}}
    /\ pc = "invite"
    /\ \E n \in 1..MaxUses, e \in BOOLEAN :
          /\ req = [maxUses |-> n, expires |-> e]
          /\ upstream = [uses_remaining |-> n, expired |-> FALSE]
    /\ steps = << >>
    /\ provider = Undefined
    /\ resp = NoResp
    /\ calls = << >>
    /\ upLog = << >>
    /\ out = << >>
    /\ ctrl = "none"
    /\ buffer = << >>
    /\ thrown = Undefined
    /\ peer = [c \in Callers |-> IdleCaller]

\* useInviteLink is called: `if (!supabase) return false`
UseInviteLink(c) ==
    /\ pc = "invite"
    /\ peer[c].at = "idle"
    /\ peer' = [peer EXCEPT ![c] =
                  IF env = {} THEN [at |-> "returned", link |-> 0, result |-> "false"]
                  ELSE [at |-> "select", link |-> 0, result |-> "none"]]
    /\ UNCHANGED << env, pc, req, steps, provider, resp, calls, upstream, upLog, out, ctrl,
                    buffer, thrown >>

\* what getInviteLink returns for the row it selected: the row, or null
LinkUsable(row, error) ==
    /\ ~error
    /\ ~row.expired
    /\ ~(row.uses_remaining <= 0)

\* the select of getInviteLink completes and useInviteLink tests its result
GetInviteLink(c) ==
    /\ pc = "invite"
    /\ peer[c].at = "select"
    /\ \E error \in BOOLEAN :
          peer' = [peer EXCEPT ![c] =
                     IF LinkUsable(upstream, error)
                     THEN [at |-> "update", link |-> upstream.uses_remaining, result |-> "none"]
                     ELSE [at |-> "returned", link |-> 0, result |-> "false"]]
    /\ UNCHANGED << env, pc, req, steps, provider, resp, calls, upstream, upLog, out, ctrl,
                    buffer, thrown >>

\* the update of useInviteLink completes: the row gets the value the caller
\* read, less one
DecrementUses(c) ==
    /\ pc = "invite"
    /\ peer[c].at = "update"
    /\ \E error \in BOOLEAN :
          IF error
          THEN /\ peer' = [peer EXCEPT ![c] = [@ EXCEPT !.at = "returned", !.result = "false"]]
               /\ UNCHANGED upstream
          ELSE /\ peer' = [peer EXCEPT ![c] = [@ EXCEPT !.at = "returned", !.result = "true"]]
               /\ upstream' = [upstream EXCEPT !.uses_remaining = peer[c].link - 1]
    /\ UNCHANGED << env, pc, req, steps, provider, resp, calls, upLog, out, ctrl, buffer,
                    thrown >>

\* the expiry of the link passes: `new Date(data.expires_at) < new Date()`
ExpiryPasses ==
    /\ pc = "invite"
    /\ req.expires
    /\ ~upstream.expired
    /\ upstream' = [upstream EXCEPT !.expired = TRUE]
    /\ UNCHANGED << env, pc, req, steps, provider, resp, calls, upLog, out, ctrl, buffer,
                    thrown, peer >>

NextInvite ==
    \/ \E c \in Callers : UseInviteLink(c)
    \/ \E c \in Callers : GetInviteLink(c)
    \/ \E c \in Callers : DecrementUses(c)
    \/ ExpiryPasses

SpecInvite == InitInvite /\ [][NextInvite]_vars

Redeemed(p) == Cardinality({ c \in Callers : p[c].result = "true" })

\* C30: invite links: a link created with a use limit N is redeemed at most N
\* times and its uses_remaining never becomes negative, however concurrent
\* useInviteLink calls on its code interleave; no redemption happens while
\* uses_remaining is 0.
C30_RedeemedAtMostLimit ==
    [][/\ Redeemed(peer') <= req.maxUses
       /\ upstream'.uses_remaining >= 0
       /\ Redeemed(peer') > Redeemed(peer) => upstream.uses_remaining > 0]_vars

=============================================================================
